---- MODULE Spec2Model ----
\* Verification model of the databased key-value store: command parser,
\* in-memory layer, WAL record codec, WAL writer/file manager and the
\* reader/writer tasks of KvStore.
EXTENDS Integers, Sequences, FiniteSets, TLC

\* ---------------------------------------------------------------------
\* Bounds of the model
\* ---------------------------------------------------------------------
\* Number of request lines the reader reads in one run of the process.
MaxLines == 2
\* Number of process restarts explored.
MaxRestarts == 1
\* Capacity of the operation channel (tokio mpsc), scaled down from 100.
ChannelCapacity == 2
\* Segment size limit in bytes (wal_filesize_limit), scaled down from 5 MiB.
FileSizeLimit == 30
\* Largest value of the wall clock (seconds).
MaxClock == 3
\* Longest token stream fed to the parser state machine in SpecParser.
MaxTokens == 7
\* Length of the longest key of the codec round trip.
MaxKeyLen == 20
\* Largest number of frames in the buffer given to split_to_chunks.
MaxFrames == 3
\* Largest number of file manager calls in SpecFM.
MaxCalls == 2
\* Largest capacity of the LRU cache and number of calls made on it.
MaxLruCapacity == 3
MaxLruCalls == 4
MaxPairs == 3
MaxIoCalls == 4

\* ---------------------------------------------------------------------
\* Bytes, strings and 32-bit words
\* ---------------------------------------------------------------------
\* A String is its UTF-8 byte sequence; u32 values are kept as two 16-bit
\* halves [hi, lo] so that every intermediate value fits an integer.
Byte == 0..255

RECURSIVE Xor(_, _)
Xor(a, b) ==
    IF a = 0 THEN b
    ELSE IF b = 0 THEN a
    ELSE (((a % 2) + (b % 2)) % 2) + 2 * Xor(a \div 2, b \div 2)

RECURSIVE And(_, _)
And(a, b) ==
    IF a = 0 \/ b = 0 THEN 0
    ELSE ((a % 2) * (b % 2)) + 2 * And(a \div 2, b \div 2)

RECURSIVE Or(_, _)
Or(a, b) ==
    IF a = 0 THEN b
    ELSE IF b = 0 THEN a
    ELSE (IF a % 2 = 1 \/ b % 2 = 1 THEN 1 ELSE 0) + 2 * Or(a \div 2, b \div 2)

U32(hi, lo) == [hi |-> hi, lo |-> lo]
Xor32(x, y) == U32(Xor(x.hi, y.hi), Xor(x.lo, y.lo))
Shr1(x) == U32(x.hi \div 2, (x.lo \div 2) + (x.hi % 2) * 32768)
Shr8(x) == U32(x.hi \div 256, (x.lo \div 256) + (x.hi % 256) * 256)
to_le_bytes(x) == << x.lo % 256, x.lo \div 256, x.hi % 256, x.hi \div 256 >>
from_le_bytes(b) == U32(b[3] + 256 * b[4], b[1] + 256 * b[2])

\* usize and i64 values are kept as four 16-bit limbs (w3 the most
\* significant); an i64 is its two's complement bit pattern.
usize_bits == 64
U64(w3, w2, w1, w0) == [w3 |-> w3, w2 |-> w2, w1 |-> w1, w0 |-> w0]
\* The usize of a length 0 <= n < 2^31.
usize(n) == U64(0, 0, n \div 65536, n % 65536)
\* The i64 literal n, -2^31 < n < 2^31.
i64(n) ==
    IF n >= 0 THEN usize(n)
    ELSE LET m == usize((-n) - 1)
         IN  U64(65535 - m.w3, 65535 - m.w2, 65535 - m.w1, 65535 - m.w0)
i64_MAX == U64(32767, 65535, 65535, 65535)
i64_MIN == U64(32768, 0, 0, 0)
\* `timestamp as usize`: the low usize_bits bits of the i64.
as_usize(x) == IF usize_bits = 64 THEN x ELSE U64(0, 0, x.w1, x.w0)
\* `timestamp as i64` of a usize: the same bits, zero-extended.
as_i64(x) == IF usize_bits = 64 THEN x ELSE U64(0, 0, x.w1, x.w0)
\* number >>= 7
Shr7(x) ==
    U64(x.w3 \div 128,
        (x.w2 \div 128) + (x.w3 % 128) * 512,
        (x.w1 \div 128) + (x.w2 % 128) * 512,
        (x.w0 \div 128) + (x.w1 % 128) * 512)
\* (v as usize) << shift for a 7-bit v and shift < usize_bits; the bits
\* shifted past the top are dropped.
Shl(v, shift) ==
    LET q == shift \div 16
        x == v * (2 ^ (shift % 16))
        limb(i) == IF i = q THEN x % 65536
                   ELSE IF i = q + 1 THEN x \div 65536
                   ELSE 0
    IN  IF usize_bits = 64 THEN U64(limb(3), limb(2), limb(1), limb(0))
        ELSE U64(0, 0, limb(1), limb(0))
Or64(x, y) == U64(Or(x.w3, y.w3), Or(x.w2, y.w2), Or(x.w1, y.w1), Or(x.w0, y.w0))
\* A usize that is a possible length or index of a byte sequence here.
fits_index(x) == x.w3 = 0 /\ x.w2 = 0 /\ x.w1 < 16384
to_index(x) == x.w1 * 65536 + x.w0

\* The slice bytes[from..to) of Rust (0-based, end exclusive).
Slice(bytes, from, to) == SubSeq(bytes, from + 1, to)

\* ---------------------------------------------------------------------
\* bytecode_serializer.rs: constants
\* ---------------------------------------------------------------------
START_MAGIC == U32(57086, 51437)
END_MAGIC == U32(2816, 45541)
START_MAGIC_BYTES == to_le_bytes(START_MAGIC)
END_MAGIC_BYTES == to_le_bytes(END_MAGIC)
PROTOCOL_VERSION == 0
PROTOCOL_BITMASK == 240
OPERATION_BITMASK == 15
SET_OPERATION == 1
GET_OPERATION == 2
DEL_OPERATION == 4
CRC_POLYNOMIAL == U32(60856, 33568)

RECURSIVE crc_table_entry(_, _)
crc_table_entry(crc, n) ==
    IF n = 0 THEN crc
    ELSE crc_table_entry(IF crc.lo % 2 = 1
                           THEN Xor32(CRC_POLYNOMIAL, Shr1(crc))
                           ELSE Shr1(crc), n - 1)

LOOKUP_CRC_TABLE == [i \in 0..255 |-> crc_table_entry(U32(0, i), 8)]

\* ---------------------------------------------------------------------
\* operation.rs: Op
\* ---------------------------------------------------------------------
new_set(timestamp, key, value) ==
    [type |-> "SET", timestamp |-> timestamp, key |-> key, value |-> value]
new_get(timestamp, key) == [type |-> "GET", timestamp |-> timestamp, key |-> key]
new_del(timestamp, key) == [type |-> "DEL", timestamp |-> timestamp, key |-> key]

\* ---------------------------------------------------------------------
\* bytecode_serializer.rs: varint, CRC, frame encode and decode
\* ---------------------------------------------------------------------
RECURSIVE varint_digits(_)
varint_digits(number) ==
    IF number = usize(0) THEN << >>
    ELSE LET rest == Shr7(number)
         IN  << (number.w0 % 128) + (IF rest # usize(0) THEN 128 ELSE 0) >>
             \o varint_digits(rest)

convert_to_varint(number) ==
    IF number = usize(0) THEN << 0 >> ELSE varint_digits(number)

\* The loop of convert_from_varint from position index (1-based); a read
\* past the end of the slice is the index panic of bytes[index].
\* A shift of usize_bits or more is the overflow panic of `<<`.
RECURSIVE varint_loop(_, _, _, _)
varint_loop(bytes, index, result, shift) ==
    IF index > Len(bytes) THEN [kind |-> "panic"]
    ELSE IF shift >= usize_bits THEN [kind |-> "panic"]
    ELSE IF bytes[index] < 128
      THEN [kind |-> "ok",
            value |-> Or64(result, Shl(bytes[index] % 128, shift)),
            consumed |-> index]
    ELSE varint_loop(bytes, index + 1,
                     Or64(result, Shl(bytes[index] % 128, shift)), shift + 7)

\* Variant: the count of consumed bytes leaves out the last byte read.
convert_from_varint_returns_index(bytes) ==
    LET r == varint_loop(bytes, 1, usize(0), 0)
    IN  IF r.kind = "ok" THEN [r EXCEPT !.consumed = @ - 1] ELSE r

convert_from_varint(bytes) == varint_loop(bytes, 1, usize(0), 0)

RECURSIVE crc_loop(_, _, _)
crc_loop(bytes, i, crc) ==
    IF i > Len(bytes) THEN crc
    ELSE LET index == Xor(crc.lo % 256, bytes[i])
             next == Xor32(LOOKUP_CRC_TABLE[index], Shr8(crc))
         IN  \* next is a u32: the test makes it a value before the next byte
             IF next.lo >= 0 THEN crc_loop(bytes, i + 1, next) ELSE next

calculate_crc32(bytes) ==
    Xor32(crc_loop(bytes, 1, U32(65535, 65535)), U32(65535, 65535))

validate_crc32(bytes, crc) == crc = calculate_crc32(bytes)

\* Variant: every header carries the operation bits of GET.
header_of_get(operation) == Or(PROTOCOL_VERSION, GET_OPERATION)

\* Header byte: SET shifts the protocol version, GET and DEL do not.
header_of(operation) ==
    CASE operation.type = "GET" -> Or(PROTOCOL_VERSION, GET_OPERATION)
      [] operation.type = "DEL" -> Or(PROTOCOL_VERSION, DEL_OPERATION)
      [] operation.type = "SET" -> Or((PROTOCOL_VERSION * 16) % 256, SET_OPERATION)

op_to_bytes(operation) ==
    LET body == << header_of(operation) >>
                \o convert_to_varint(as_usize(operation.timestamp))
                \o convert_to_varint(usize(Len(operation.key)))
                \o operation.key
                \o (IF operation.type = "SET"
                      THEN convert_to_varint(usize(Len(operation.value)))
                           \o operation.value
                      ELSE << >>)
         crc_bytes == to_le_bytes(calculate_crc32(body))
    IN  START_MAGIC_BYTES \o body \o convert_to_varint(usize(Len(crc_bytes)))
        \o crc_bytes \o END_MAGIC_BYTES

\* String::from_utf8: well-formedness of lead and continuation bytes.
RECURSIVE utf8_valid(_, _)
utf8_valid(bytes, i) ==
    IF i > Len(bytes) THEN TRUE
    ELSE LET b == bytes[i]
             n == IF b < 128 THEN 0
                  ELSE IF b >= 194 /\ b < 224 THEN 1
                  ELSE IF b >= 224 /\ b < 240 THEN 2
                  ELSE IF b >= 240 /\ b < 245 THEN 3
                  ELSE 4
         IN  /\ n < 4
             /\ i + n <= Len(bytes)
             /\ \A j \in (i + 1)..(i + n) : bytes[j] >= 128 /\ bytes[j] < 192
             /\ utf8_valid(bytes, i + n + 1)

from_utf8(bytes) == utf8_valid(bytes, 1)

\* A length-prefixed string at 0-based offset index, v the varint read
\* there: the slice bytes[index + idx .. index + idx + len] (panics when
\* out of range).
string_after_len(bytes, index, v) ==
    IF v.kind # "ok" THEN [kind |-> "panic"]
    ELSE IF ~ fits_index(v.value) THEN [kind |-> "panic"]
    ELSE IF index + v.consumed + to_index(v.value) > Len(bytes)
      THEN [kind |-> "panic"]
    ELSE IF from_utf8(Slice(bytes, index + v.consumed,
                            index + v.consumed + to_index(v.value)))
      THEN [kind |-> "ok",
            str |-> Slice(bytes, index + v.consumed,
                          index + v.consumed + to_index(v.value)),
            next |-> index + v.consumed + to_index(v.value)]
    ELSE [kind |-> "err"]

read_string(bytes, index) ==
    string_after_len(bytes, index, convert_from_varint(Slice(bytes, index, Len(bytes))))

\* The CRC trailer at 0-based offset index, v the varint read there, and
\* its validation.
crc_after_len(bytes, index, v) ==
    IF v.kind # "ok" THEN [kind |-> "panic"]
    ELSE IF ~ fits_index(v.value) THEN [kind |-> "panic"]
    ELSE IF index + v.consumed + to_index(v.value) > Len(bytes)
      THEN [kind |-> "panic"]
    ELSE IF v.value # usize(4) THEN [kind |-> "err"]
    ELSE IF validate_crc32(Slice(bytes, 0, index),
                           from_le_bytes(Slice(bytes, index + v.consumed,
                                               index + v.consumed + 4)))
      THEN [kind |-> "ok"]
    ELSE [kind |-> "err"]

read_crc(bytes, index) ==
    crc_after_len(bytes, index, convert_from_varint(Slice(bytes, index, Len(bytes))))

\* op_from_bytes after the CRC trailer c was read: the operation op.
op_after_crc(c, op) ==
    IF c.kind # "ok" THEN [kind |-> c.kind] ELSE [kind |-> "ok", op |-> op]

\* The SET arm after the value was read.
set_after_value(bytes, timestamp, key, value) ==
    IF value.kind # "ok" THEN [kind |-> value.kind]
    ELSE op_after_crc(read_crc(bytes, value.next),
                      new_set(timestamp, key.str, value.str))

\* op_from_bytes after the key was read: the match on the operation code.
op_after_key(bytes, operation, timestamp, key) ==
    IF key.kind # "ok" THEN [kind |-> key.kind]
    ELSE IF operation = SET_OPERATION
      THEN set_after_value(bytes, timestamp, key, read_string(bytes, key.next))
    ELSE IF operation = GET_OPERATION
      THEN op_after_crc(read_crc(bytes, key.next), new_get(timestamp, key.str))
    ELSE IF operation = DEL_OPERATION
      THEN op_after_crc(read_crc(bytes, key.next), new_del(timestamp, key.str))
    ELSE [kind |-> "err"]

\* op_from_bytes after the timestamp varint ts was read.
op_after_timestamp(bytes, operation, ts) ==
    IF ts.kind # "ok" THEN [kind |-> "panic"]
    ELSE op_after_key(bytes, operation, as_i64(ts.value),
                      read_string(bytes, 1 + ts.consumed))

op_from_bytes(bytes) ==
    IF Len(bytes) = 0 THEN [kind |-> "err"]
    ELSE op_after_timestamp(bytes, And(bytes[1], OPERATION_BITMASK),
                            convert_from_varint(Slice(bytes, 1, Len(bytes))))

\* split_to_chunks: start is never cleared, and 0 stands for "no start".
RECURSIVE split_loop(_, _, _, _)
split_loop(bytes, index, start, chunks) ==
    IF index > Len(bytes) - 4 THEN chunks
    ELSE LET window == Slice(bytes, index, index + 4)
             start2 == IF window = START_MAGIC_BYTES THEN index + 4 ELSE start
             chunks2 == IF window = END_MAGIC_BYTES /\ start2 # 0
                          THEN IF start2 > index
                                 THEN Append(chunks, "panic")
                                 ELSE Append(chunks, Slice(bytes, start2, index))
                          ELSE chunks
         IN  split_loop(bytes, index + 1, start2, chunks2)

split_to_chunks(bytes) ==
    IF Len(bytes) = 0 THEN << >>
    ELSE IF Len(bytes) < 4 THEN "panic"
    ELSE split_loop(bytes, 0, 0, << >>)

RECURSIVE chunks_loop(_, _, _)
\* The body of the loop of recover_from_chunks on the decoded chunk r.
chunks_step(chunks, i, ops, r) ==
    IF r.kind # "ok" THEN [kind |-> r.kind]
    ELSE chunks_loop(chunks, i + 1, Append(ops, r.op))

chunks_loop(chunks, i, ops) ==
    IF i > Len(chunks) THEN [kind |-> "ok", ops |-> ops]
    ELSE chunks_step(chunks, i, ops, op_from_bytes(chunks[i]))

recover_from_chunks(chunks) == chunks_loop(chunks, 1, << >>)

recover_from_bytes(bytes) ==
    LET chunks == split_to_chunks(bytes)
    IN  IF chunks = "panic" \/ \E i \in 1..Len(chunks) : chunks[i] = "panic"
          THEN [kind |-> "panic"]
          ELSE recover_from_chunks(chunks)

\* ---------------------------------------------------------------------
\* Option values: None is the empty tuple, Some(x) the 1-tuple of x
\* ---------------------------------------------------------------------
None == << >>
Some(x) == << x >>

\* ---------------------------------------------------------------------
\* operation.rs: OpBuilder
\* ---------------------------------------------------------------------
OpBuilder_new == [timestamp |-> i64(0), op_type |-> None, key |-> None, value |-> None]

build(b) ==
    IF b.op_type = Some("SET") THEN
        IF b.key # None /\ b.value # None
          THEN Some(new_set(b.timestamp, b.key[1], b.value[1]))
          ELSE None
    ELSE IF b.op_type = Some("GET") THEN
        IF b.key # None THEN Some(new_get(b.timestamp, b.key[1])) ELSE None
    ELSE IF b.op_type = Some("DEL") THEN
        IF b.key # None THEN Some(new_del(b.timestamp, b.key[1])) ELSE None
    ELSE None

\* ---------------------------------------------------------------------
\* parser.rs: Lexer
\* ---------------------------------------------------------------------
W_SET == << 83, 69, 84 >>
W_GET == << 71, 69, 84 >>
W_DEL == << 68, 69, 76 >>
W_AND == << 65, 78, 68 >>
W_TO == << 84, 79 >>

Tok(t) == [t |-> t]
LITERAL(word) == [t |-> "LITERAL", s |-> word]

eval_word(word) ==
    CASE word = W_SET -> Tok("SET")
      [] word = W_GET -> Tok("GET")
      [] word = W_DEL -> Tok("DEL")
      [] word = W_AND -> Tok("AND")
      [] word = W_TO -> Tok("TO")
      [] OTHER -> LITERAL(word)

is_whitespace(b) == b \in {9, 10, 11, 12, 13, 32}

\* str::split_whitespace: the maximal runs of non-whitespace bytes.
RECURSIVE split_whitespace(_, _, _, _)
split_whitespace(input, i, word, words) ==
    IF i > Len(input)
      THEN IF word = << >> THEN words ELSE Append(words, word)
    ELSE IF is_whitespace(input[i])
      THEN split_whitespace(input, i + 1, << >>,
                            IF word = << >> THEN words ELSE Append(words, word))
    ELSE split_whitespace(input, i + 1, Append(word, input[i]), words)

\* Lexer::tokenize over the bytes of one line (read up to the newline).
tokenize(bytes) ==
    IF ~ from_utf8(bytes) THEN [kind |-> "err"]
    ELSE LET words == split_whitespace(bytes, 1, << >>, << >>)
         IN  [kind |-> "ok", tokens |-> [i \in 1..Len(words) |-> eval_word(words[i])]]

\* ---------------------------------------------------------------------
\* parser.rs: StateMachine and Parser
\* ---------------------------------------------------------------------
StateMachine_new == [state |-> "Start", op_builder |-> OpBuilder_new]

Ok(sm) == [kind |-> "ok", sm |-> sm]
Err == [kind |-> "err"]

process(sm, token) ==
    CASE sm.state = "Start" ->
           IF token.t \in {"SET", "GET", "DEL"}
             THEN Ok([state |-> CASE token.t = "SET" -> "Set"
                                  [] token.t = "GET" -> "Get"
                                  [] token.t = "DEL" -> "Del",
                      op_builder |-> [sm.op_builder EXCEPT !.op_type = Some(token.t)]])
             ELSE Err
      [] sm.state = "Key" ->
           IF token.t = "TO" THEN Ok([sm EXCEPT !.state = "To"])
           ELSE IF token.t = "AND"
             THEN Ok([state |-> "Start", op_builder |-> OpBuilder_new])
           ELSE IF token.t = "EOF" THEN Ok([sm EXCEPT !.state = "Start"])
           ELSE Err
      [] sm.state = "To" ->
           IF token.t = "LITERAL"
             THEN Ok([state |-> "Value",
                      op_builder |-> [sm.op_builder EXCEPT !.value = Some(token.s)]])
             ELSE Err
      [] sm.state = "Value" ->
           IF token.t = "AND"
             THEN Ok([state |-> "Start", op_builder |-> OpBuilder_new])
           ELSE IF token.t = "EOF" THEN Ok([sm EXCEPT !.state = "Start"])
           ELSE Err
      [] sm.state \in {"Set", "Get", "Del"} ->
           IF token.t = "LITERAL"
             THEN Ok([state |-> "Key",
                      op_builder |-> [sm.op_builder EXCEPT !.key = Some(token.s)]])
             ELSE Err

get_operation(sm) == build(sm.op_builder)

\* Variant: AND returns to Start without starting a new builder.
process_keeps_builder(sm, token) ==
    IF sm.state \in {"Key", "Value"} /\ token.t = "AND"
      THEN Ok([sm EXCEPT !.state = "Start"])
      ELSE process(sm, token)

\* state_machine.process(token.clone())
process_step(sm, token) == process(sm, token)

\* Variant: a token the state machine rejects is skipped and the loop goes
\* on with the next token.
parse_token_skips_rejected(p, token) ==
    LET r == process_step(p.sm, token)
    IN  IF r.kind = "err" THEN p
        ELSE LET o == get_operation(r.sm)
             IN  [status |-> "running", sm |-> r.sm,
                  operations |-> IF o # None THEN Append(p.operations, o[1])
                                 ELSE p.operations]

\* One iteration of the token loop of Parser::parse on the parse state
\* p = [status, sm, operations]: process the token, then collect the
\* operation the builder yields, if any.
parse_token(p, token) ==
    LET r == process_step(p.sm, token)
    IN  IF r.kind = "err" THEN [p EXCEPT !.status = "err"]
        ELSE LET o == get_operation(r.sm)
             IN  [status |-> "running", sm |-> r.sm,
                  operations |-> IF o # None THEN Append(p.operations, o[1])
                                 ELSE p.operations]

\* The end of the token loop: no operation at all is an error.
parse_end(p) ==
    IF p.operations = << >> THEN [p EXCEPT !.status = "err"]
    ELSE [p EXCEPT !.status = "ok"]

Parse_start == [status |-> "running", sm |-> StateMachine_new, operations |-> << >>]

RECURSIVE parse_loop(_, _, _)
parse_loop(p, tokens, i) ==
    IF p.status = "err" THEN p
    ELSE IF i > Len(tokens) THEN parse_end(p)
    ELSE parse_loop(parse_token(p, tokens[i]), tokens, i + 1)

\* Parser::parse on the bytes of one line.
parse(line) ==
    LET lexed == tokenize(line)
    IN  IF lexed.kind = "err" THEN [Parse_start EXCEPT !.status = "err"]
        ELSE parse_loop(Parse_start, lexed.tokens, 1)

\* ---------------------------------------------------------------------
\* in_memory.rs: InMemoryLayer (the map is a set of <<key, value>> pairs)
\* ---------------------------------------------------------------------
InMemoryLayer_new == {}

get(store, key) ==
    IF \E e \in store : e[1] = key
      THEN Some((CHOOSE e \in store : e[1] = key)[2])
      ELSE None

set(store, key, value) == {e \in store : e[1] # key} \cup {<< key, value >>}

\* Variant: del looks the key up and leaves the entry in the map.
del_keeps_entry(store, key) == store

del(store, key) == {e \in store : e[1] # key}

\* InMemoryLayer::eval: the new map and the returned Option<String>.
eval(store, op) ==
    CASE op.type = "SET" ->
           [store |-> set(store, op.key, op.value), result |-> Some(op.key)]
      [] op.type = "GET" -> [store |-> store, result |-> get(store, op.key)]
      [] op.type = "DEL" ->
           [store |-> del(store, op.key), result |-> get(store, op.key)]

RECURSIVE eval_all(_, _, _)
eval_all(store, ops, i) ==
    IF i > Len(ops) THEN store
    ELSE eval_all(eval(store, ops[i]).store, ops, i + 1)

\* ---------------------------------------------------------------------
\* lru_cache.rs: LruCacheLayer; the LinkedHashMap is the sequence of its
\* entries << key, value >> from the front (oldest) to the back
\* ---------------------------------------------------------------------
\* LinkedHashMap::with_capacity(n).capacity(): the hash table takes 4, 8 or
\* the next power of two of n * 8 / 7 buckets and holds 3, 7 or 7/8 of the
\* buckets; it is at least n. Growth by later rehashing is left out.
RECURSIVE next_power_of_two(_, _)
next_power_of_two(n, p) == IF p >= n THEN p ELSE next_power_of_two(n, 2 * p)

table_capacity(n) ==
    IF n < 4 THEN 3
    ELSE IF n < 8 THEN 7
    ELSE (next_power_of_two((n * 8) \div 7, 1) \div 8) * 7

LruCacheLayer_new(capacity) ==
    [cache |-> << >>, capacity |-> table_capacity(capacity + 1)]

\* Index of key in the entries, 0 when vacant.
RECURSIVE from_key(_, _, _)
from_key(cache, key, i) ==
    IF i > Len(cache) THEN 0
    ELSE IF cache[i][1] = key THEN i
    ELSE from_key(cache, key, i + 1)

\* The entries without the one at index i.
remove_entry(cache, i) == SubSeq(cache, 1, i - 1) \o SubSeq(cache, i + 1, Len(cache))

to_back(cache, i) == Append(remove_entry(cache, i), cache[i])

\* LruCacheLayer::put: an occupied entry moves to the back and keeps its
\* value; pop_front when the length equals the table capacity.
LruCacheLayer_put(l, key, value) ==
    LET i == from_key(l.cache, key, 1)
        entries == IF i # 0 THEN to_back(l.cache, i)
                   ELSE Append(l.cache, << key, value >>)
    IN  [l EXCEPT !.cache = IF l.capacity = Len(entries) THEN Tail(entries)
                            ELSE entries]

\* LruCacheLayer::get: [l, result].
LruCacheLayer_get(l, key) ==
    LET i == from_key(l.cache, key, 1)
    IN  IF i # 0
          THEN [l |-> [l EXCEPT !.cache = to_back(l.cache, i)],
                result |-> Some(l.cache[i][2])]
          ELSE [l |-> l, result |-> None]

LruCacheLayer_del(l, key) ==
    LET i == from_key(l.cache, key, 1)
    IN  IF i # 0 THEN [l EXCEPT !.cache = remove_entry(l.cache, i)] ELSE l

\* ---------------------------------------------------------------------
\* persistent/block.rs: Header and Block::construct
\* ---------------------------------------------------------------------
PAGE_SIZE == 8192
HEADER_SIZE == 12
\* LinePointer::<32>: the key padded to 32 bytes and a u16 offset.
LINE_POINTER_KEY_LEN == 32

Header_default ==
    [page_size |-> PAGE_SIZE, checksum |-> 0, flags |-> 0, lower |-> 0,
     upper |-> 0, linp |-> 0]

\* Header::is_space_to_write. lower - upper is a u16 subtraction: with
\* overflow checks (debug profile) it panics when lower < upper, without
\* them (release profile) it wraps. The result is [panic, value].
is_space_to_write(header, size, overflow_checks) ==
    IF header.lower < header.upper /\ overflow_checks
      THEN [panic |-> TRUE, value |-> FALSE]
    ELSE LET diff == (header.lower - header.upper) % 65536
         IN  [panic |-> FALSE, value |-> IF diff < size THEN FALSE ELSE TRUE]

\* The state of Block::construct before the loop: [status, header, data,
\* not_fit_records]; data is the list of the copy_from_slice calls made on
\* the zeroed page, [at, bytes].
construct_start ==
    [status |-> "running",
     header |-> [Header_default EXCEPT !.linp = HEADER_SIZE,
                                       !.lower = HEADER_SIZE,
                                       !.upper = (PAGE_SIZE % 65536) - 1],
     data |-> << >>,
     not_fit_records |-> << >>]

\* One iteration of the loop of Block::construct on the pair (key, value).
construct_step(b, key, value, overflow_checks) ==
    LET value_bytes_len == 4 + Len(value)
        upper == b.header.upper
        lower == b.header.lower
        \* upper as usize - value_bytes.len(); negative: wrapped below 0
        new_upper == upper - value_bytes_len
        lp_bytes_len == LINE_POINTER_KEY_LEN + 2
        new_lower == lower + lp_bytes_len
        space == is_space_to_write(b.header, lp_bytes_len + value_bytes_len,
                                   overflow_checks)
    IN  IF new_upper < 0 /\ overflow_checks THEN [b EXCEPT !.status = "panic"]
        ELSE IF Len(key) > LINE_POINTER_KEY_LEN THEN [b EXCEPT !.status = "err"]
        ELSE IF space.panic THEN [b EXCEPT !.status = "panic"]
        ELSE IF space.value
          THEN \* byte_block[new_upper..upper], then byte_block[lower..new_lower]
               IF new_upper < 0 \/ new_lower > PAGE_SIZE
                 THEN [b EXCEPT !.status = "panic"]
               ELSE [b EXCEPT
                       !.data = @ \o << [at |-> new_upper, key |-> << >>,
                                         len |-> value_bytes_len, value |-> value],
                                        [at |-> lower, key |-> key,
                                         len |-> lp_bytes_len,
                                         value |-> new_upper % 65536] >>,
                       !.header.lower = new_lower % 65536,
                       !.header.upper = new_upper % 65536]
        ELSE [b EXCEPT !.not_fit_records = Append(@, << key, value >>)]

\* ---------------------------------------------------------------------
\* State
\* ---------------------------------------------------------------------
VARIABLES
    clock,          \* chrono::Utc::now().timestamp()
    disk,           \* WAL directory: file name -> file contents
    wal_dir_files,  \* WALFileManager.wal_dir_files (file names)
    latest_file,    \* WALFileManager.latest_file
    file_handle,    \* WALio.file_handle: [file, pos, write]
    batch,          \* WALio.batch
    capacity,       \* WALio.batch.capacity()
    queue,          \* operations in the mpsc channel
    closed,         \* every Sender of the channel has been dropped
    store,          \* InMemoryLayer.store
    rpc,            \* position of main / the reader task
    ops,            \* operations of the current line still to be handled
    cur_line,       \* the request line read last
    lines_read,     \* number of request lines read
    last_result,    \* the reply written last (Option<String>)
    wpc,            \* position of the writer task (WAL::run)
    wop,            \* the operation the writer is handling
    restarts,       \* number of process restarts so far
    sent,           \* history: operations sent on the channel in this run
    recvd,          \* history: operations the writer received in this run
    applied,        \* history: operations evaluated on the map
    results,        \* history: the result of each evaluated operation
    store_before,   \* history: the map the reader held at the last restart
    written,        \* history: operations whose frame entered the batch
    n_recovered,    \* history: number of operations regenerate evaluated
    pending_at_close, \* history: queue length when the channel was closed
    parse_errors,   \* history: number of request lines rejected in this run
    io_errors,      \* history: number of failed WAL writes and rotations
    p_words,        \* SpecParser: the words fed to the parser so far
    p_parse,        \* SpecParser: the parse state [status, sm, operations]
    c_op,           \* SpecCodec: the operation to encode
    c_frame,        \* SpecCodec: Some(op_to_bytes(c_op)) once encoded
    c_decoded,      \* SpecCodec: Some(result of op_from_bytes) once decoded
    s_payloads,     \* SpecSplit: the payloads of the frames of the buffer
    s_buffer,       \* SpecSplit: the concatenated frames
    s_chunks,       \* SpecSplit: Some(result of split_to_chunks) once split
    f_calls,        \* SpecFM: number of file manager calls made
    f_call,         \* SpecFM: the last file manager call and what it returned
    l_capacity,     \* SpecLru: the capacity given to LruCacheLayer::new
    l_layer,        \* SpecLru: the LruCacheLayer
    l_uses,         \* SpecLru: history, the keys put or found, oldest first
    l_call,         \* SpecLru: the last call and its result
    b_checks,       \* SpecBlock: the build has integer overflow checks
    b_init_data,    \* SpecBlock: the pairs given to Block::construct
    b_index,        \* SpecBlock: number of pairs the loop has handled
    b_block,        \* SpecBlock: the state of Block::construct
    w_calls,        \* SpecWALio: number of calls made on the WALio
    w_call,         \* SpecWALio: the last call, [op, data]
    w_data,         \* SpecWALio: all data passed to write, in call order
    v_number,       \* SpecVarint: the number to encode
    v_rest,         \* SpecVarint: the bytes that follow the encoding
    v_bytes,        \* SpecVarint: Some(convert_to_varint(v_number)) once encoded
    v_decoded       \* SpecVarint: Some(result of convert_from_varint)

fsVars == << clock, disk, wal_dir_files, latest_file >>
ioVars == << file_handle, batch, capacity >>
chanVars == << queue, closed >>
readerVars == << store, rpc, ops, cur_line, lines_read, last_result >>
writerVars == << wpc, wop >>
histVars == << restarts, sent, recvd, applied, results, store_before,
              written, n_recovered, pending_at_close, parse_errors, io_errors >>
parserVars == << p_words, p_parse >>
codecVars == << c_op, c_frame, c_decoded >>
storeVars == << fsVars, ioVars, chanVars, readerVars, writerVars, histVars >>
\* The variables of the specifications of single functions.
splitVars == << s_payloads, s_buffer, s_chunks >>
fmVars == << f_calls, f_call >>
lruVars == << l_capacity, l_layer, l_uses, l_call >>
blockVars == << b_checks, b_init_data, b_index, b_block >>
walioVars == << w_calls, w_call, w_data >>
varintVars == << v_number, v_rest, v_bytes, v_decoded >>
unitVars ==
    << parserVars, codecVars, splitVars, fmVars, lruVars, blockVars, walioVars,
       varintVars >>
vars == << storeVars, unitVars >>

\* ---------------------------------------------------------------------
\* Request lines read from standard input
\* ---------------------------------------------------------------------
kA == << 97 >>
kB == << 98 >>
v1 == << 49 >>
v2 == << 50 >>

RECURSIVE JoinWords(_, _)
JoinWords(words, i) ==
    IF i > Len(words) THEN << 10 >>
    ELSE (IF i > 1 THEN << 32 >> ELSE << >>) \o words[i] \o JoinWords(words, i + 1)

Line(words) == JoinWords(words, 1)

LineSetA == Line(<< W_SET, kA, W_TO, v1 >>)
LineGetA == Line(<< W_GET, kA >>)
LineGetDelGet == Line(<< W_GET, kA, W_AND, W_DEL, kA, W_AND, W_GET, kA >>)
LineScenario == Line(<< W_SET, kA, W_TO, v1, W_AND, W_SET, kB, W_TO, v2,
                        W_AND, W_DEL, kA >>)
LineEmpty == Line(<< >>)
LineBadTail == Line(<< W_SET, kB, W_TO, v2, W_AND, W_TO >>)

Lines == { LineSetA, LineGetA, LineGetDelGet, LineScenario, LineEmpty, LineBadTail }

\* The operations these lines parse to, and their frames, computed once.
LineOps ==
    UNION { { parse(l).operations[i] : i \in 1..Len(parse(l).operations) } :
            l \in Lines }

FrameTable == [o \in LineOps |-> op_to_bytes(o)]

\* Op::into_bytes
into_bytes(op) == IF op \in LineOps THEN FrameTable[op] ELSE op_to_bytes(op)

\* ---------------------------------------------------------------------
\* wal_io.rs: WALio
\* ---------------------------------------------------------------------
Max(a, b) == IF a >= b THEN a ELSE b

RECURSIVE Zeros(_)
Zeros(n) == IF n <= 0 THEN << >> ELSE << 0 >> \o Zeros(n - 1)

\* File contents after writing data at offset pos.
write_at(contents, pos, data) ==
    IF pos >= Len(contents)
      THEN contents \o Zeros(pos - Len(contents)) \o data
      ELSE Slice(contents, 0, pos) \o data
           \o Slice(contents, pos + Len(data), Len(contents))

\* Vec::with_capacity(batch_capacity) in WALio::new (WAL::new passes 3).
batch_capacity == 3

\* batch.capacity() after extending a batch of length len by additional
\* bytes (amortised growth of Vec<u8>).
grown_capacity(cap, len, additional) ==
    IF cap - len >= additional THEN cap
    ELSE Max(8, Max(2 * cap, len + additional))

\* Variant: flush writes the batch and does not clear it.
WALio_flush_keeps_batch(io, d) ==
    IF io.batch = << >> THEN [ok |-> TRUE, io |-> io, disk |-> d]
    ELSE IF ~ io.file_handle.write \/ io.file_handle.file \notin DOMAIN d
      THEN [ok |-> FALSE, io |-> io, disk |-> d]
    ELSE [ok |-> TRUE,
          io |-> [io EXCEPT !.file_handle.pos = @ + Len(io.batch)],
          disk |-> [d EXCEPT ![io.file_handle.file] =
                                 write_at(@, io.file_handle.pos, io.batch)]]

\* WALio::flush: write_all of the batch through the handle, then clear.
\* write_all of an empty buffer performs no write; a write through a
\* handle that was not opened for writing fails.
WALio_flush(io, d) ==
    IF io.batch = << >> THEN [ok |-> TRUE, io |-> io, disk |-> d]
    ELSE IF ~ io.file_handle.write \/ io.file_handle.file \notin DOMAIN d
      THEN [ok |-> FALSE, io |-> io, disk |-> d]
    ELSE [ok |-> TRUE,
          io |-> [io EXCEPT !.batch = << >>,
                            !.file_handle.pos = @ + Len(io.batch)],
          disk |-> [d EXCEPT ![io.file_handle.file] =
                                 write_at(@, io.file_handle.pos, io.batch)]]

\* WALio::write: flush first when the data does not fit the capacity.
WALio_write(io, d, data) ==
    LET f == IF Len(io.batch) + Len(data) > io.capacity
               THEN WALio_flush(io, d)
               ELSE [ok |-> TRUE, io |-> io, disk |-> d]
    IN  IF ~ f.ok THEN f
        ELSE [ok |-> TRUE,
              io |-> [f.io EXCEPT
                        !.batch = @ \o data,
                        !.capacity = grown_capacity(@, Len(f.io.batch), Len(data))],
              disk |-> f.disk]

\* Variant: recover reads the file and leaves the handle at its position.
WALio_recover_keeps_position(io, d) ==
    LET contents == d[io.file_handle.file]
    IN  [buffer |-> Slice(contents, io.file_handle.pos, Len(contents)), io |-> io]

\* WALio::recover: read_to_end from the handle's position.
WALio_recover(io, d) ==
    LET contents == d[io.file_handle.file]
    IN  [buffer |-> Slice(contents, io.file_handle.pos, Len(contents)),
         io |-> [io EXCEPT !.file_handle.pos = Max(@, Len(contents))]]

\* WALio::set_new_file_handle: the new handle replaces the old one.
set_new_file_handle(io, file) == [io EXCEPT !.file_handle = file]

WALio_new(file, cap) == [file_handle |-> file, batch |-> << >>, capacity |-> cap]

IO == [file_handle |-> file_handle, batch |-> batch, capacity |-> capacity]

\* ---------------------------------------------------------------------
\* log.rs: WALFileManager
\* ---------------------------------------------------------------------
\* i64 Display: the decimal digits, after "-" when negative.
RECURSIVE decimal(_)
decimal(n) ==
    IF n < 10 THEN << 48 + n >> ELSE decimal(n \div 10) \o << 48 + (n % 10) >>

to_string(n) == IF n < 0 THEN << 45 >> \o decimal(-n) ELSE decimal(n)

\* format!("wal_{}", timestamp); a file is named by the bytes of its name.
wal_file_name(timestamp) == << 119, 97, 108, 95 >> \o to_string(timestamp)

\* Ord of the paths of one directory: the file names compared bytewise.
RECURSIVE path_le(_, _)
path_le(a, b) ==
    IF a = << >> THEN TRUE
    ELSE IF b = << >> THEN FALSE
    ELSE IF a[1] # b[1] THEN a[1] < b[1]
    ELSE path_le(Tail(a), Tail(b))

\* Vec::sort of the paths in S.
RECURSIVE SortedSeq(_)
SortedSeq(S) ==
    IF S = {} THEN << >>
    ELSE LET m == CHOOSE x \in S : \A y \in S : path_le(x, y)
         IN  << m >> \o SortedSeq(S \ {m})

\* fs::File::create: creates the file, or truncates it when it exists.
File_create(d, name) ==
    [n \in DOMAIN d \cup {name} |-> IF n = name THEN << >> ELSE d[n]]

\* WALFileManager::new on the directory d at time now.
WALFileManager_new(d, now) ==
    IF DOMAIN d = {}
      THEN LET file_name == wal_file_name(now)
           IN  [disk |-> File_create(d, file_name),
                wal_dir_files |-> << file_name >>,
                latest_file |-> file_name]
      ELSE LET sorted == SortedSeq(DOMAIN d)
           IN  [disk |-> d, wal_dir_files |-> sorted,
                latest_file |-> sorted[Len(sorted)]]

\* WALFileManager::rotate: latest_file is left as it was.
rotate(fm, now) ==
    LET file_name == wal_file_name(now)
    IN  [fm EXCEPT !.disk = File_create(@, file_name),
                   !.wal_dir_files = Append(@, file_name)]

\* WALFileManager::get_file_handler: read + write, at offset 0.
get_file_handler(fm) == [file |-> fm.latest_file, pos |-> 0, write |-> TRUE]

\* WALFileManager::size_rotate: [ok, fm, file], file an Option<File>;
\* File::open opens latest_file read-only.
size_rotate(fm, now) ==
    IF fm.latest_file \notin DOMAIN fm.disk
      THEN [ok |-> FALSE, fm |-> fm, file |-> None]
    ELSE IF Len(fm.disk[fm.latest_file]) >= FileSizeLimit
      THEN LET r == rotate(fm, now)
           IN  [ok |-> TRUE, fm |-> r,
                file |-> Some([file |-> r.latest_file, pos |-> 0, write |-> FALSE])]
    ELSE [ok |-> TRUE, fm |-> fm, file |-> None]

\* str::split_once('_'): the parts before and after the first '_'.
RECURSIVE split_once(_, _)
split_once(name, i) ==
    IF i > Len(name) THEN None
    ELSE IF name[i] = 95
      THEN Some([before |-> SubSeq(name, 1, i - 1),
                 after |-> SubSeq(name, i + 1, Len(name))])
    ELSE split_once(name, i + 1)

RECURSIVE digits_value(_, _, _)
digits_value(str, i, acc) ==
    IF i > Len(str) THEN acc ELSE digits_value(str, i + 1, 10 * acc + (str[i] - 48))

\* str::parse::<i64>: an optional sign, then one or more decimal digits
\* (here at most nine, so that the value fits an integer).
parse_i64(str) ==
    LET signed == str # << >> /\ str[1] \in {43, 45}
        digits == IF signed THEN Tail(str) ELSE str
    IN  IF digits = << >> \/ Len(digits) > 9 THEN None
        ELSE IF \E i \in 1..Len(digits) : digits[i] < 48 \/ digits[i] > 57 THEN None
        ELSE LET v == digits_value(digits, 1, 0)
             IN  Some(IF signed /\ str[1] = 45 THEN -v ELSE v)

\* Variant of the filter: timestamps up to and including the cutoff.
filter_through_cutoff(file_path, to_point_in_time) ==
    LET parts == split_once(file_path, 1)
        ts == IF parts = None THEN None ELSE parse_i64(parts[1].after)
    IN  IF ts = None THEN FALSE ELSE ts[1] <= to_point_in_time

\* The filter of timed_cleanup on one path of wal_dir_files.
filter_older(file_path, to_point_in_time) ==
    LET parts == split_once(file_path, 1)
        ts == IF parts = None THEN None ELSE parse_i64(parts[1].after)
    IN  IF ts = None THEN FALSE ELSE ts[1] < to_point_in_time

\* The remove_file calls of timed_cleanup, one per path to delete; a call
\* fails for the paths in failing and for a path that is not on disk.
RECURSIVE delete_loop(_, _, _, _, _)
delete_loop(files_to_delete, i, d, failing, success_deleted_files) ==
    IF i > Len(files_to_delete)
      THEN [disk |-> d, success_deleted_files |-> success_deleted_files]
    ELSE LET file == files_to_delete[i]
         IN  IF file \in DOMAIN d /\ file \notin failing
               THEN delete_loop(files_to_delete, i + 1,
                                [n \in DOMAIN d \ {file} |-> d[n]], failing,
                                Append(success_deleted_files, file))
               ELSE delete_loop(files_to_delete, i + 1, d, failing,
                                success_deleted_files)

\* Variant: no segment is created when none is left.
timed_cleanup_without_rotate(fm, to_point_in_time, failing, now) ==
    LET files_to_delete ==
            SelectSeq(fm.wal_dir_files,
                      LAMBDA file_path : filter_older(file_path, to_point_in_time))
    IN  IF Len(files_to_delete) = 0
          THEN [fm |-> fm, files_to_delete |-> files_to_delete, count |-> 0]
        ELSE
        LET r == delete_loop(files_to_delete, 1, fm.disk, failing, << >>)
            retained ==
                SelectSeq(fm.wal_dir_files,
                          LAMBDA file_path :
                              \A j \in 1..Len(r.success_deleted_files) :
                                  r.success_deleted_files[j] # file_path)
        IN  [fm |-> [fm EXCEPT !.disk = r.disk, !.wal_dir_files = retained],
             files_to_delete |-> files_to_delete,
             count |-> Len(r.success_deleted_files)]

\* WALFileManager::timed_cleanup: [fm, files_to_delete, count].
timed_cleanup(fm, to_point_in_time, failing, now) ==
    LET files_to_delete ==
            SelectSeq(fm.wal_dir_files,
                      LAMBDA file_path : filter_older(file_path, to_point_in_time))
    IN  IF Len(files_to_delete) = 0
          THEN [fm |-> fm, files_to_delete |-> files_to_delete, count |-> 0]
        ELSE
        LET r == delete_loop(files_to_delete, 1, fm.disk, failing, << >>)
            retained ==
                SelectSeq(fm.wal_dir_files,
                          LAMBDA file_path :
                              \A j \in 1..Len(r.success_deleted_files) :
                                  r.success_deleted_files[j] # file_path)
            fm2 == [fm EXCEPT !.disk = r.disk, !.wal_dir_files = retained]
        IN  [fm |-> IF Len(retained) = 0 THEN rotate(fm2, now) ELSE fm2,
             files_to_delete |-> files_to_delete,
             count |-> Len(r.success_deleted_files)]

FM == [disk |-> disk, wal_dir_files |-> wal_dir_files, latest_file |-> latest_file]

\* Concatenation of the segments on disk in ascending filename order.
RECURSIVE ConcatFiles(_, _, _)
ConcatFiles(d, names, i) ==
    IF i > Len(names) THEN << >>
    ELSE d[names[i]] \o ConcatFiles(d, names, i + 1)

AllSegments(d) == ConcatFiles(d, SortedSeq(DOMAIN d), 1)

\* ---------------------------------------------------------------------
\* Initial state: KvStore::new on an empty data directory at time 1
\* ---------------------------------------------------------------------
EmptyDir == [n \in {} |-> << >>]

\* The state main reaches on the WAL directory d at time now.
InitStoreOn(d, now) ==
    LET fm == WALFileManager_new(d, now)
        io == WALio_new(get_file_handler(fm), batch_capacity)
    IN  /\ clock = now
        /\ disk = fm.disk
        /\ wal_dir_files = fm.wal_dir_files
        /\ latest_file = fm.latest_file
        /\ file_handle = io.file_handle
        /\ batch = io.batch
        /\ capacity = io.capacity
        /\ queue = << >>
        /\ closed = FALSE
        /\ store = InMemoryLayer_new
        /\ rpc = "regenerate"
        /\ ops = << >>
        /\ cur_line = << >>
        /\ lines_read = 0
        /\ last_result = None
        /\ wpc = "unspawned"
        /\ wop = None
        /\ restarts = 0
        /\ sent = << >>
        /\ recvd = << >>
        /\ applied = << >>
        /\ results = << >>
        /\ store_before = {}
        /\ written = << >>
        /\ n_recovered = 0
        /\ pending_at_close = 0
        /\ parse_errors = 0
        /\ io_errors = 0

InitStore == InitStoreOn(EmptyDir, 1)

InitParser ==
    /\ p_words = << >>
    /\ p_parse = Parse_start

\* No operation is being encoded.
IdleCodec ==
    /\ c_op = None
    /\ c_frame = None
    /\ c_decoded = None

\* The buffer of no frame, not split.
InitSplit ==
    /\ s_payloads = << >>
    /\ s_buffer = << >>
    /\ s_chunks = None

\* No file manager call made.
IdleFM ==
    /\ f_calls = 0
    /\ f_call = None

\* No cache built.
IdleLru ==
    /\ l_capacity = 0
    /\ l_layer = None
    /\ l_uses = << >>
    /\ l_call = [n |-> 0, op |-> "none"]

\* No block under construction.
IdleBlock ==
    /\ b_checks = FALSE
    /\ b_init_data = << >>
    /\ b_index = 0
    /\ b_block = None

\* No call made on a WALio of its own.
IdleWALio ==
    /\ w_calls = 0
    /\ w_call = [op |-> "none"]
    /\ w_data = << >>

\* No varint under conversion.
IdleVarint ==
    /\ v_number = usize(0)
    /\ v_rest = << >>
    /\ v_bytes = None
    /\ v_decoded = None

\* The state of the specifications of single functions at rest.
IdleUnits ==
    /\ InitParser /\ IdleCodec /\ InitSplit /\ IdleFM /\ IdleLru /\ IdleBlock
    /\ IdleWALio /\ IdleVarint

Init == InitStore /\ IdleUnits

\* ---------------------------------------------------------------------
\* kvstore.rs: main's startup and the reader loop of KvStore::run
\* ---------------------------------------------------------------------
RECURSIVE eval_results(_, _, _)
eval_results(st, os, i) ==
    IF i > Len(os) THEN << >>
    ELSE << eval(st, os[i]).result >> \o eval_results(eval(st, os[i]).store, os, i + 1)

\* KvStore::regenerate: recover the bytes behind the WAL handle, decode
\* all of them, then evaluate the operations; main unwraps the result.
KvStore_regenerate ==
    /\ rpc = "regenerate"
    /\ LET r == WALio_recover(IO, disk)
           rec == recover_from_bytes(r.buffer)
       IN  /\ file_handle' = r.io.file_handle
           /\ IF rec.kind = "ok"
                THEN /\ store' = eval_all(store, rec.ops, 1)
                     /\ applied' = applied \o rec.ops
                     /\ results' = results \o eval_results(store, rec.ops, 1)
                     /\ n_recovered' = Len(rec.ops)
                     /\ rpc' = "run"
                ELSE /\ rpc' = "dead"
                     /\ UNCHANGED << store, applied, results, n_recovered >>
    /\ UNCHANGED << fsVars, batch, capacity, chanVars, ops, cur_line, lines_read,
                    last_result, writerVars, restarts, sent, recvd, store_before,
                    written, pending_at_close, parse_errors, io_errors, unitVars >>

\* KvStore::run: spawn the writer task, then enter the read loop.
KvStore_run_spawn ==
    /\ rpc = "run"
    /\ rpc' = "parse"
    /\ wpc' = "recv"
    /\ UNCHANGED << fsVars, ioVars, chanVars, store, ops, cur_line, lines_read,
                    last_result, wop, histVars, unitVars >>

\* Variant: on a parse error the operations parsed before the error are
\* still handled.
KvStore_run_parse_keeps_partial(line) ==
    /\ rpc = "parse"
    /\ lines_read < MaxLines
    /\ cur_line' = line
    /\ lines_read' = lines_read + 1
    /\ LET r == parse(line)
       IN  /\ ops' = r.operations
           /\ rpc' = IF r.operations # << >> THEN "send" ELSE "parse"
           /\ parse_errors' = IF r.status = "ok" THEN parse_errors
                               ELSE parse_errors + 1
    /\ UNCHANGED << fsVars, ioVars, chanVars, store, last_result, writerVars,
                    restarts, sent, recvd, applied, results, store_before,
                    written, n_recovered, pending_at_close, io_errors, unitVars >>

\* The read loop: parse one line; an error is printed and the loop goes on.
KvStore_run_parse(line) ==
    /\ rpc = "parse"
    /\ lines_read < MaxLines
    /\ cur_line' = line
    /\ lines_read' = lines_read + 1
    /\ LET r == parse(line)
       IN  IF r.status = "ok"
             THEN /\ ops' = r.operations
                  /\ rpc' = "send"
                  /\ UNCHANGED parse_errors
             ELSE /\ ops' = << >>
                  /\ rpc' = "parse"
                  /\ parse_errors' = parse_errors + 1
    /\ UNCHANGED << fsVars, ioVars, chanVars, store, last_result, writerVars,
                    restarts, sent, recvd, applied, results, store_before,
                    written, n_recovered, pending_at_close, io_errors, unitVars >>

\* Variant: the channel is unbounded.
channel_always_has_room(q) == TRUE

\* mpsc::channel(100): a send completes only while the queue has room.
channel_has_room(q) == Len(q) < ChannelCapacity

\* self.send_to_wal.send(op.clone()).await
KvStore_run_send ==
    /\ rpc = "send"
    /\ channel_has_room(queue)
    /\ queue' = Append(queue, Head(ops))
    /\ sent' = Append(sent, Head(ops))
    /\ rpc' = "eval"
    /\ UNCHANGED << fsVars, ioVars, closed, store, ops, cur_line, lines_read,
                    last_result, writerVars, restarts, recvd, applied, results,
                    store_before, written, n_recovered, pending_at_close,
                    parse_errors, io_errors, unitVars >>

\* self.store.eval(op) and the reply on standard output.
KvStore_run_eval ==
    /\ rpc = "eval"
    /\ LET e == eval(store, Head(ops))
       IN  /\ store' = e.store
           /\ last_result' = e.result
           /\ results' = Append(results, e.result)
    /\ applied' = Append(applied, Head(ops))
    /\ ops' = Tail(ops)
    /\ rpc' = IF Tail(ops) = << >> THEN "parse" ELSE "send"
    /\ UNCHANGED << fsVars, ioVars, chanVars, cur_line, lines_read, writerVars,
                    restarts, sent, recvd, store_before, written, n_recovered,
                    pending_at_close, parse_errors, io_errors, unitVars >>

\* ---------------------------------------------------------------------
\* log.rs: the writer loop WAL::run
\* ---------------------------------------------------------------------
\* Variant: the writer takes the newest operation of the queue.
WAL_run_recv_newest_first ==
    /\ wpc = "recv"
    /\ IF queue # << >>
         THEN /\ wop' = queue[Len(queue)]
              /\ queue' = SubSeq(queue, 1, Len(queue) - 1)
              /\ recvd' = Append(recvd, queue[Len(queue)])
              /\ wpc' = IF queue[Len(queue)].type = "GET" THEN "recv" ELSE "write"
         ELSE /\ closed
              /\ wpc' = "done"
              /\ UNCHANGED << wop, queue, recvd >>
    /\ UNCHANGED << fsVars, ioVars, closed, readerVars, restarts, sent, applied,
                    results, store_before, written, n_recovered, pending_at_close,
                    parse_errors, io_errors, unitVars >>

\* Variant: a GET is written like any other operation.
WAL_run_recv_writes_get ==
    /\ wpc = "recv"
    /\ IF queue # << >>
         THEN /\ wop' = Head(queue)
              /\ queue' = Tail(queue)
              /\ recvd' = Append(recvd, Head(queue))
              /\ wpc' = "write"
         ELSE /\ closed
              /\ wpc' = "done"
              /\ UNCHANGED << wop, queue, recvd >>
    /\ UNCHANGED << fsVars, ioVars, closed, readerVars, restarts, sent, applied,
                    results, store_before, written, n_recovered, pending_at_close,
                    parse_errors, io_errors, unitVars >>

\* Variant: the loop ends as soon as the channel is closed.
WAL_run_recv_stops_at_close ==
    /\ wpc = "recv"
    /\ IF queue # << >> /\ ~ closed
         THEN /\ wop' = Head(queue)
              /\ queue' = Tail(queue)
              /\ recvd' = Append(recvd, Head(queue))
              /\ wpc' = IF Head(queue).type = "GET" THEN "recv" ELSE "write"
         ELSE /\ closed
              /\ wpc' = "done"
              /\ UNCHANGED << wop, queue, recvd >>
    /\ UNCHANGED << fsVars, ioVars, closed, readerVars, restarts, sent, applied,
                    results, store_before, written, n_recovered, pending_at_close,
                    parse_errors, io_errors, unitVars >>

\* Variant: the loop returns after it received a GET.
WAL_run_recv_returns_on_get ==
    /\ wpc = "recv"
    /\ IF queue # << >>
         THEN /\ wop' = Head(queue)
              /\ queue' = Tail(queue)
              /\ recvd' = Append(recvd, Head(queue))
              /\ wpc' = IF Head(queue).type = "GET" THEN "done" ELSE "write"
         ELSE /\ closed
              /\ wpc' = "done"
              /\ UNCHANGED << wop, queue, recvd >>
    /\ UNCHANGED << fsVars, ioVars, closed, readerVars, restarts, sent, applied,
                    results, store_before, written, n_recovered, pending_at_close,
                    parse_errors, io_errors, unitVars >>

\* self.rc.recv().await and the match on the operation: a GET is skipped;
\* recv yields None once the channel is closed and drained.
WAL_run_recv ==
    /\ wpc = "recv"
    /\ IF queue # << >>
         THEN /\ wop' = Head(queue)
              /\ queue' = Tail(queue)
              /\ recvd' = Append(recvd, Head(queue))
              /\ wpc' = IF Head(queue).type = "GET" THEN "recv" ELSE "write"
         ELSE /\ closed
              /\ wpc' = "done"
              /\ UNCHANGED << wop, queue, recvd >>
    /\ UNCHANGED << fsVars, ioVars, closed, readerVars, restarts, sent, applied,
                    results, store_before, written, n_recovered, pending_at_close,
                    parse_errors, io_errors, unitVars >>

\* self.io_controller.write(op.into_bytes()); an error is only printed.
\* Variant: a failed write ends the loop.
WAL_run_write_stops_on_error ==
    /\ wpc = "write"
    /\ LET w == WALio_write(IO, disk, into_bytes(wop))
       IN  /\ file_handle' = w.io.file_handle
           /\ batch' = w.io.batch
           /\ capacity' = w.io.capacity
           /\ disk' = w.disk
           /\ written' = IF w.ok THEN Append(written, wop) ELSE written
           /\ io_errors' = IF w.ok THEN io_errors ELSE io_errors + 1
           /\ wpc' = IF w.ok THEN "rotate" ELSE "done"
    /\ UNCHANGED << clock, wal_dir_files, latest_file, chanVars, readerVars, wop,
                    restarts, sent, recvd, applied, results, store_before,
                    n_recovered, pending_at_close, parse_errors, unitVars >>

WAL_run_write ==
    /\ wpc = "write"
    /\ LET w == WALio_write(IO, disk, into_bytes(wop))
       IN  /\ file_handle' = w.io.file_handle
           /\ batch' = w.io.batch
           /\ capacity' = w.io.capacity
           /\ disk' = w.disk
           /\ written' = IF w.ok THEN Append(written, wop) ELSE written
           /\ io_errors' = IF w.ok THEN io_errors ELSE io_errors + 1
    /\ wpc' = "rotate"
    /\ UNCHANGED << clock, wal_dir_files, latest_file, chanVars, readerVars, wop,
                    restarts, sent, recvd, applied, results, store_before,
                    n_recovered, pending_at_close, parse_errors, unitVars >>

\* self.wal_file_manager.size_rotate() and the installation of the handle.
WAL_run_size_rotate ==
    /\ wpc = "rotate"
    /\ LET r == size_rotate(FM, clock)
           io == IF r.ok /\ r.file # None
                   THEN set_new_file_handle(IO, r.file[1]) ELSE IO
       IN  /\ disk' = r.fm.disk
           /\ wal_dir_files' = r.fm.wal_dir_files
           /\ latest_file' = r.fm.latest_file
           /\ file_handle' = io.file_handle
           /\ batch' = io.batch
           /\ capacity' = io.capacity
           /\ io_errors' = IF r.ok THEN io_errors ELSE io_errors + 1
    /\ wpc' = "recv"
    /\ UNCHANGED << clock, chanVars, readerVars, wop, restarts, sent, recvd,
                    applied, results, store_before, written, n_recovered,
                    pending_at_close, parse_errors, unitVars >>

WAL_run == WAL_run_recv \/ WAL_run_write \/ WAL_run_size_rotate

\* ---------------------------------------------------------------------
\* Environment: the clock, shutdown and restart of the process
\* ---------------------------------------------------------------------
Tick ==
    /\ clock < MaxClock
    /\ clock' = clock + 1
    /\ UNCHANGED << disk, wal_dir_files, latest_file, ioVars, chanVars, readerVars,
                    writerVars, histVars, unitVars >>

\* The store (the only Sender) is dropped while the reader is suspended
\* on standard input or on a send: the channel is closed.
DropSender ==
    /\ rpc \in {"parse", "send"}
    /\ ~ closed
    /\ rpc' = "stopped"
    /\ closed' = TRUE
    /\ pending_at_close' = Len(queue)
    /\ UNCHANGED << fsVars, ioVars, queue, store, ops, cur_line, lines_read,
                    last_result, writerVars, restarts, sent, recvd, applied,
                    results, store_before, written, n_recovered, parse_errors,
                    io_errors, unitVars >>

\* The process ends with nothing in flight (or after the writer returned,
\* or after a failed startup) and is started again: KvStore::new.
Restart ==
    /\ restarts < MaxRestarts
    /\ \/ rpc = "parse" /\ queue = << >> /\ wpc = "recv"
       \/ rpc = "stopped" /\ wpc = "done"
       \/ rpc = "dead"
    /\ LET fm == WALFileManager_new(disk, clock)
           io == WALio_new(get_file_handler(fm), batch_capacity)
       IN  /\ disk' = fm.disk
           /\ wal_dir_files' = fm.wal_dir_files
           /\ latest_file' = fm.latest_file
           /\ file_handle' = io.file_handle
           /\ batch' = io.batch
           /\ capacity' = io.capacity
    /\ queue' = << >>
    /\ closed' = FALSE
    /\ store' = InMemoryLayer_new
    /\ rpc' = "regenerate"
    /\ ops' = << >>
    /\ cur_line' = << >>
    /\ last_result' = None
    /\ wpc' = "unspawned"
    /\ wop' = None
    /\ restarts' = restarts + 1
    /\ sent' = << >>
    /\ recvd' = << >>
    /\ applied' = << >>
    /\ results' = << >>
    /\ store_before' = store
    /\ written' = << >>
    /\ n_recovered' = 0
    /\ pending_at_close' = 0
    /\ parse_errors' = 0
    /\ io_errors' = 0
    /\ UNCHANGED << clock, lines_read, unitVars >>

Next ==
    \/ KvStore_regenerate
    \/ KvStore_run_spawn
    \/ \E line \in Lines : KvStore_run_parse(line)
    \/ KvStore_run_send
    \/ KvStore_run_eval
    \/ WAL_run_recv
    \/ WAL_run_write
    \/ WAL_run_size_rotate
    \/ Tick
    \/ DropSender
    \/ Restart

Spec == Init /\ [][Next]_vars

\* Environment fault: the tail segment is removed from the directory while
\* the writer runs, so that fs::metadata in size_rotate fails.
RemoveTail ==
    /\ wpc \in {"recv", "write", "rotate"}
    /\ latest_file \in DOMAIN disk
    /\ disk' = [n \in DOMAIN disk \ {latest_file} |-> disk[n]]
    /\ UNCHANGED << clock, wal_dir_files, latest_file, ioVars, chanVars, readerVars,
                    writerVars, histVars, unitVars >>

NextFault == Next \/ RemoveTail

\* The program with I/O faults of the environment.
FaultSpec == Init /\ [][NextFault]_vars

\* The runtime schedules the spawned writer task whenever it can run.
FairSpec == Spec /\ WF_vars(WAL_run)

\* The steps of the reader task that wait on nothing but the channel.
KvStore_run_step == KvStore_run_send \/ KvStore_run_eval

\* The runtime also polls the reader task whenever its send can complete.
FairRunSpec == Spec /\ WF_vars(WAL_run) /\ WF_vars(KvStore_run_step)

\* ---------------------------------------------------------------------
\* SpecParser: Parser::parse fed one word at a time
\* ---------------------------------------------------------------------
ParserWords == { W_SET, W_GET, W_DEL, W_AND, W_TO, kA, v1 }

ParserFeed(word) ==
    /\ p_parse.status = "running"
    /\ Len(p_words) < MaxTokens
    /\ p_words' = Append(p_words, word)
    /\ p_parse' = parse_token(p_parse, eval_word(word))
    /\ UNCHANGED << storeVars, codecVars, splitVars, fmVars, lruVars, blockVars,
                    walioVars, varintVars >>

ParserEnd ==
    /\ p_parse.status = "running"
    /\ p_parse' = parse_end(p_parse)
    /\ UNCHANGED << storeVars, codecVars, splitVars, fmVars, lruVars, blockVars,
                    walioVars, varintVars, p_words >>

NextParser ==
    \/ \E word \in ParserWords : ParserFeed(word)
    \/ ParserEnd

SpecParser == Init /\ [][NextParser]_vars

\* ---------------------------------------------------------------------
\* SpecCodec: op_to_bytes, then op_from_bytes on the frame without magics
\* ---------------------------------------------------------------------
CodecTimestamps ==
    { i64(0), i64(1), i64(127), i64(128), i64(1234567890), i64(-1),
      i64(-128), i64_MIN, i64_MAX }
RECURSIVE LongKey(_)
LongKey(n) == IF n = 0 THEN << >> ELSE << 120 >> \o LongKey(n - 1)
\* "", "a", "key", "é" and a key of MaxKeyLen bytes.
CodecStrings ==
    { << >>, kA, << 107, 101, 121 >>, << 195, 169 >>, LongKey(MaxKeyLen) }
CodecOps ==
    { new_set(t, k, v) : t \in CodecTimestamps, k \in CodecStrings, v \in {<< >>, v1} }
    \cup { new_get(t, k) : t \in CodecTimestamps, k \in CodecStrings }
    \cup { new_del(t, k) : t \in CodecTimestamps, k \in CodecStrings }

InitCodec ==
    /\ InitStore /\ InitParser /\ InitSplit /\ IdleFM /\ IdleLru /\ IdleBlock /\ IdleWALio
    /\ IdleVarint
    /\ c_op \in { Some(o) : o \in CodecOps }
    /\ c_frame = None
    /\ c_decoded = None

CodecEncode ==
    /\ c_op # None /\ c_frame = None
    /\ c_frame' = Some(op_to_bytes(c_op[1]))
    /\ UNCHANGED << storeVars, parserVars, splitVars, fmVars, lruVars, blockVars,
                    walioVars, varintVars,
                    c_op, c_decoded >>

\* The chunk of the frame: the bytes between the two 4-byte magics.
CodecDecode ==
    /\ c_frame # None /\ c_decoded = None
    /\ c_decoded' = Some(op_from_bytes(Slice(c_frame[1], 4, Len(c_frame[1]) - 4)))
    /\ UNCHANGED << storeVars, parserVars, splitVars, fmVars, lruVars, blockVars,
                    walioVars, varintVars,
                    c_op, c_frame >>

NextCodec == CodecEncode \/ CodecDecode

SpecCodec == InitCodec /\ [][NextCodec]_vars

\* ---------------------------------------------------------------------
\* SpecSplit: split_to_chunks on a buffer of concatenated frames
\* ---------------------------------------------------------------------
\* The chunk of a frame of op_to_bytes.
Payload(op) == LET frame == op_to_bytes(op) IN Slice(frame, 4, Len(frame) - 4)
\* A timestamp whose varint holds the four bytes of START_MAGIC.
MagicTimestamp == U64(0, 0, 7135, 42093)
\* The payloads of the repository's test (1690 and 1691 as i32), the empty
\* payload, the chunks of two operations, and the two magics.
Payloads ==
    { << 154, 6, 0, 0 >>, << 155, 6, 0, 0 >>, << >>,
      Payload(new_set(i64(0), kA, v1)), Payload(new_del(MagicTimestamp, kA)),
      START_MAGIC_BYTES, END_MAGIC_BYTES }

SplitAppend(payload) ==
    /\ s_chunks = None
    /\ Len(s_payloads) < MaxFrames
    /\ s_payloads' = Append(s_payloads, payload)
    /\ s_buffer' = s_buffer \o START_MAGIC_BYTES \o payload \o END_MAGIC_BYTES
    /\ UNCHANGED << storeVars, parserVars, codecVars, fmVars, lruVars, blockVars,
                    walioVars, varintVars, s_chunks >>

SplitRun ==
    /\ s_chunks = None
    /\ s_chunks' = Some(split_to_chunks(s_buffer))
    /\ UNCHANGED << storeVars, parserVars, codecVars, fmVars, lruVars, blockVars,
                    walioVars, varintVars,
                    s_payloads, s_buffer >>

NextSplit ==
    \/ \E payload \in Payloads : SplitAppend(payload)
    \/ SplitRun

SpecSplit == Init /\ [][NextSplit]_vars

\* Buffers shorter than a magic, over bytes of the two magics and one other.
ShortBytes == { 0, 237, 200, 229, 11 }

ShortBuffers == UNION { [1..n -> ShortBytes] : n \in 0..3 }

InitShort ==
    /\ InitStore /\ InitParser /\ IdleCodec /\ IdleFM /\ IdleLru /\ IdleBlock /\ IdleWALio
    /\ IdleVarint
    /\ s_payloads = << >>
    /\ s_buffer \in ShortBuffers
    /\ s_chunks = None

NextShort == SplitRun

SpecShort == InitShort /\ [][NextShort]_vars

\* ---------------------------------------------------------------------
\* SpecDecode: op_from_bytes on malformed chunks
\* ---------------------------------------------------------------------
GoodChunks ==
    { Payload(new_set(i64(1), kA, v1)),
      Payload(new_get(i64(300), << 107, 101, 121 >>)),
      Payload(new_del(i64(-1), kA)) }
\* The empty input, a lone header byte and every other proper prefix.
TruncatedChunks ==
    UNION { { SubSeq(c, 1, n) : n \in 0..(Len(c) - 1) } : c \in GoodChunks }
UnknownOpChunks == { [c EXCEPT ![1] = code] : c \in GoodChunks, code \in { 0, 3, 15 } }
\* A timestamp varint whose bytes all carry the continuation bit.
UnterminatedChunks == { << GET_OPERATION, 129 >>, << SET_OPERATION, 255, 255, 255 >> }
\* The key (byte 4 of the SET chunk) or the value (byte 6) is the byte 0xFF.
BadUtf8Chunks ==
    { [Payload(new_set(i64(1), kA, v1)) EXCEPT ![i] = 255] : i \in { 4, 6 } }
\* The CRC length is 3 or 5, with as many CRC bytes.
BadCrcLenChunks ==
    { << GET_OPERATION, 1, 1, 97, 3, 0, 0, 0 >>,
      << GET_OPERATION, 1, 1, 97, 5, 0, 0, 0, 0, 0 >> }
\* A damaged last byte of the CRC.
BadCrcChunks == { [c EXCEPT ![Len(c)] = Xor(@, 1)] : c \in GoodChunks }
MalformedChunks ==
    TruncatedChunks \cup UnknownOpChunks \cup UnterminatedChunks
    \cup BadUtf8Chunks \cup BadCrcLenChunks \cup BadCrcChunks

InitDecode ==
    /\ InitStore /\ InitParser /\ InitSplit /\ IdleFM /\ IdleLru /\ IdleBlock /\ IdleWALio
    /\ IdleVarint
    /\ c_op = None
    /\ c_frame \in { Some(START_MAGIC_BYTES \o c \o END_MAGIC_BYTES) :
                      c \in MalformedChunks }
    /\ c_decoded = None

SpecDecode == InitDecode /\ [][CodecDecode]_vars

\* ---------------------------------------------------------------------
\* SpecFM: the calls of WALFileManager on directories found at startup
\* ---------------------------------------------------------------------
Range(q) == { q[i] : i \in 1..Len(q) }

wal_100 == wal_file_name(100)
wal_200 == wal_file_name(200)
wal_300 == wal_file_name(300)
\* "wal_x9" and "notes": names that do not follow the pattern.
wal_x9 == << 119, 97, 108, 95, 120, 57 >>
notes == << 110, 111, 116, 101, 115 >>
DirNames == { wal_100, wal_200, wal_300, wal_x9, notes }
\* The directory of the files S; wal_300 has reached the size limit.
DirOf(S) == [n \in S |-> IF n = wal_300 THEN Zeros(FileSizeLimit) ELSE << >>]
Cutoffs == { 2, 200, 250, 1000 }
\* The sets of files whose removal fails: none, or any one file.
FailingSets(files) == { {} } \cup { { n } : n \in files }

\* WALFileManager::new on a directory of the files S.
InitFM ==
    /\ \E S \in SUBSET DirNames :
          /\ InitStoreOn(DirOf(S), 1)
          /\ f_call = Some([op |-> "new", found |-> S])
    /\ f_calls = 0
    /\ InitParser /\ IdleCodec /\ InitSplit /\ IdleLru /\ IdleBlock /\ IdleWALio
    /\ IdleVarint

FM_timed_cleanup(to_point_in_time, failing) ==
    /\ f_calls < MaxCalls
    /\ LET r == timed_cleanup(FM, to_point_in_time, failing, clock)
       IN  /\ disk' = r.fm.disk
           /\ wal_dir_files' = r.fm.wal_dir_files
           /\ latest_file' = r.fm.latest_file
           /\ f_call' = Some([op |-> "timed_cleanup",
                              to_point_in_time |-> to_point_in_time,
                              failing |-> failing,
                              files_to_delete |-> r.files_to_delete,
                              result |-> r.count])
    /\ f_calls' = f_calls + 1
    /\ UNCHANGED << clock, ioVars, chanVars, readerVars, writerVars, histVars,
                    parserVars, codecVars, splitVars, lruVars, blockVars, walioVars,
                    varintVars >>

FM_rotate ==
    /\ f_calls < MaxCalls
    /\ LET r == rotate(FM, clock)
       IN  /\ disk' = r.disk
           /\ wal_dir_files' = r.wal_dir_files
           /\ latest_file' = r.latest_file
    /\ f_call' = Some([op |-> "rotate", ok |-> TRUE])
    /\ f_calls' = f_calls + 1
    /\ UNCHANGED << clock, ioVars, chanVars, readerVars, writerVars, histVars,
                    parserVars, codecVars, splitVars, lruVars, blockVars, walioVars,
                    varintVars >>

FM_size_rotate ==
    /\ f_calls < MaxCalls
    /\ LET r == size_rotate(FM, clock)
       IN  /\ disk' = r.fm.disk
           /\ wal_dir_files' = r.fm.wal_dir_files
           /\ latest_file' = r.fm.latest_file
           /\ f_call' = Some([op |-> "size_rotate", ok |-> r.ok, file |-> r.file])
    /\ f_calls' = f_calls + 1
    /\ UNCHANGED << clock, ioVars, chanVars, readerVars, writerVars, histVars,
                    parserVars, codecVars, splitVars, lruVars, blockVars, walioVars,
                    varintVars >>

NextFM ==
    \/ \E to_point_in_time \in Cutoffs :
         \E failing \in FailingSets(Range(wal_dir_files)) :
             FM_timed_cleanup(to_point_in_time, failing)
    \/ FM_rotate
    \/ FM_size_rotate
    \/ Tick

SpecFM == InitFM /\ [][NextFM]_vars

\* ---------------------------------------------------------------------
\* SpecLru: put, get and del on an LruCacheLayer
\* ---------------------------------------------------------------------
LruCapacities == 1..MaxLruCapacity
\* "w", "x", "y", "z"
LruKeys == { << 119 >>, << 120 >>, << 121 >>, << 122 >> }
LruValues == { v1, v2 }

InitLru ==
    /\ InitStore /\ InitParser /\ IdleCodec /\ InitSplit /\ IdleFM /\ IdleBlock /\ IdleWALio
    /\ IdleVarint
    /\ l_capacity \in LruCapacities
    /\ l_layer = Some(LruCacheLayer_new(l_capacity))
    /\ l_uses = << >>
    /\ l_call = [n |-> 0, op |-> "new"]

LruPut(key, value) ==
    /\ l_call.n < MaxLruCalls
    /\ l_layer' = Some(LruCacheLayer_put(l_layer[1], key, value))
    /\ l_uses' = Append(l_uses, key)
    /\ l_call' = [n |-> l_call.n + 1, op |-> "put", key |-> key, value |-> value]
    /\ UNCHANGED << storeVars, parserVars, codecVars, splitVars, fmVars, blockVars,
                    walioVars, varintVars, l_capacity >>

LruGet(key) ==
    /\ l_call.n < MaxLruCalls
    /\ LET r == LruCacheLayer_get(l_layer[1], key)
       IN  /\ l_layer' = Some(r.l)
           /\ l_uses' = IF r.result # None THEN Append(l_uses, key) ELSE l_uses
           /\ l_call' = [n |-> l_call.n + 1, op |-> "get", key |-> key,
                         result |-> r.result]
    /\ UNCHANGED << storeVars, parserVars, codecVars, splitVars, fmVars, blockVars,
                    walioVars, varintVars, l_capacity >>

LruDel(key) ==
    /\ l_call.n < MaxLruCalls
    /\ l_layer' = Some(LruCacheLayer_del(l_layer[1], key))
    /\ l_call' = [n |-> l_call.n + 1, op |-> "del", key |-> key]
    /\ UNCHANGED << storeVars, parserVars, codecVars, splitVars, fmVars, blockVars,
                    walioVars, varintVars, l_capacity, l_uses >>

NextLru ==
    \/ \E key \in LruKeys : \E value \in LruValues : LruPut(key, value)
    \/ \E key \in LruKeys : LruGet(key)
    \/ \E key \in LruKeys : LruDel(key)

SpecLru == InitLru /\ [][NextLru]_vars

\* ---------------------------------------------------------------------
\* SpecBlock: Block::construct, one pair of init_data at a time, under
\* both build profiles
\* ---------------------------------------------------------------------
\* A String of n bytes.
StringOfLen(n) == [i \in 1..n |-> 118]

\* Value lengths: small ones, ones that fill the page in two or three
\* pairs, and one larger than the page.
BlockValueLens == { 1, 100, 2700, 4000, 8200 }
BlockKeys == { kA, kB }
BlockPairs == { << k, StringOfLen(n) >> : k \in BlockKeys, n \in BlockValueLens }

RECURSIVE PairSeqs(_)
PairSeqs(n) ==
    IF n = 0 THEN { << >> }
    ELSE LET shorter == PairSeqs(n - 1)
         IN  shorter \cup { Append(ps, p) : ps \in { q \in shorter : Len(q) = n - 1 },
                                            p \in BlockPairs }

InitBlock ==
    /\ InitStore /\ InitParser /\ IdleCodec /\ InitSplit /\ IdleFM /\ IdleLru
    /\ IdleWALio
    /\ IdleVarint
    /\ b_checks \in BOOLEAN
    /\ b_init_data \in PairSeqs(MaxPairs)
    /\ b_index = 0
    /\ b_block = Some(construct_start)

\* One iteration of `for (key, value) in init_data.iter()`.
BlockStep ==
    /\ b_block # None /\ b_block[1].status = "running"
    /\ b_index < Len(b_init_data)
    /\ b_block' = Some(construct_step(b_block[1], b_init_data[b_index + 1][1],
                                      b_init_data[b_index + 1][2], b_checks))
    /\ b_index' = b_index + 1
    /\ UNCHANGED << storeVars, parserVars, codecVars, splitVars, fmVars, lruVars,
                    walioVars, varintVars, b_checks, b_init_data >>

\* The end of the loop: Ok((block, not_fit_records)).
BlockReturn ==
    /\ b_block # None /\ b_block[1].status = "running"
    /\ b_index = Len(b_init_data)
    /\ b_block' = Some([b_block[1] EXCEPT !.status = "ok"])
    /\ UNCHANGED << storeVars, parserVars, codecVars, splitVars, fmVars, lruVars,
                    walioVars, varintVars, b_checks, b_init_data, b_index >>

NextBlock == BlockStep \/ BlockReturn

SpecBlock == InitBlock /\ [][NextBlock]_vars

\* ---------------------------------------------------------------------
\* SpecWALio: write and flush calls on a WALio over a new, empty file
\* ---------------------------------------------------------------------
\* Data of 1, 2 and 4 bytes: below, and above, the capacity of 3.
IoData == { << 1 >>, << 2, 3 >>, << 4, 5, 6, 7 >> }

IO_write(data) ==
    /\ w_calls < MaxIoCalls
    /\ LET w == WALio_write(IO, disk, data)
       IN  /\ file_handle' = w.io.file_handle
           /\ batch' = w.io.batch
           /\ capacity' = w.io.capacity
           /\ disk' = w.disk
           /\ w_data' = IF w.ok THEN w_data \o data ELSE w_data
           /\ w_call' = [op |-> "write", data |-> data, ok |-> w.ok]
    /\ w_calls' = w_calls + 1
    /\ UNCHANGED << clock, wal_dir_files, latest_file, chanVars, readerVars,
                    writerVars, histVars, parserVars, codecVars, splitVars, fmVars,
                    lruVars, blockVars, varintVars >>

IO_flush ==
    /\ w_calls < MaxIoCalls
    /\ LET f == WALio_flush(IO, disk)
       IN  /\ file_handle' = f.io.file_handle
           /\ batch' = f.io.batch
           /\ capacity' = f.io.capacity
           /\ disk' = f.disk
           /\ w_call' = [op |-> "flush", data |-> << >>, ok |-> f.ok]
    /\ w_calls' = w_calls + 1
    /\ UNCHANGED << clock, wal_dir_files, latest_file, chanVars, readerVars,
                    writerVars, histVars, parserVars, codecVars, splitVars, fmVars,
                    lruVars, blockVars, varintVars, w_data >>

NextWALio ==
    \/ \E data \in IoData : IO_write(data)
    \/ IO_flush

SpecWALio == Init /\ [][NextWALio]_vars

\* ---------------------------------------------------------------------
\* SpecVarint: convert_to_varint, then convert_from_varint on the encoding
\* followed by other bytes
\* ---------------------------------------------------------------------
VarintNumbers ==
    { usize(0), usize(1), usize(127), usize(128), usize(300), usize(16383),
      usize(16384), usize(2097152), U64(0, 0, 32767, 65535), U64(0, 0, 65535, 65535),
      U64(0, 1, 0, 0), U64(0, 128, 0, 0), U64(255, 65535, 65535, 65535),
      U64(256, 0, 0, 0), i64_MAX, i64_MIN, U64(65535, 65535, 65535, 65535) }

VarintRests == { << >>, << 0 >>, << 128, 1 >>, << 255, 255 >> }

InitVarint ==
    /\ InitStore /\ InitParser /\ IdleCodec /\ InitSplit /\ IdleFM /\ IdleLru
    /\ IdleBlock /\ IdleWALio
    /\ v_number \in VarintNumbers
    /\ v_rest \in VarintRests
    /\ v_bytes = None
    /\ v_decoded = None

VarintEncode ==
    /\ v_bytes = None
    /\ v_bytes' = Some(convert_to_varint(v_number))
    /\ UNCHANGED << storeVars, parserVars, codecVars, splitVars, fmVars, lruVars,
                    blockVars, walioVars, v_number, v_rest, v_decoded >>

VarintDecode ==
    /\ v_bytes # None /\ v_decoded = None
    /\ v_decoded' = Some(convert_from_varint(v_bytes[1] \o v_rest))
    /\ UNCHANGED << storeVars, parserVars, codecVars, splitVars, fmVars, lruVars,
                    blockVars, walioVars, v_number, v_rest, v_bytes >>

NextVarint == VarintEncode \/ VarintDecode

SpecVarint == InitVarint /\ [][NextVarint]_vars

\* ---------------------------------------------------------------------
\* SpecRegenerate: KvStore::regenerate at startup on a WAL directory whose
\* one segment holds frames, some of which do not decode
\* ---------------------------------------------------------------------
GoodSetFrame == op_to_bytes(new_set(i64(1), kA, v1))
GoodDelFrame == op_to_bytes(new_del(i64(2), kA))
\* A frame whose last CRC byte is damaged.
BadCrcFrame == [GoodSetFrame EXCEPT ![Len(GoodSetFrame) - 4] = Xor(@, 1)]
\* A frame with the operation code 15.
UnknownOpFrame == [GoodDelFrame EXCEPT ![5] = 15]
\* A frame cut after its header byte.
TruncatedFrame == START_MAGIC_BYTES \o << DEL_OPERATION >> \o END_MAGIC_BYTES

SegmentFrames ==
    { GoodSetFrame, GoodDelFrame, BadCrcFrame, UnknownOpFrame, TruncatedFrame }

RECURSIVE SegmentContents(_)
SegmentContents(n) ==
    IF n = 0 THEN { << >> }
    ELSE LET shorter == SegmentContents(n - 1)
         IN  shorter \cup { c \o f : c \in shorter, f \in SegmentFrames }

InitRegenerate ==
    /\ \E contents \in SegmentContents(MaxFrames) :
           InitStoreOn([n \in { wal_file_name(0) } |-> contents], 1)
    /\ IdleUnits

NextRegenerate == KvStore_regenerate

SpecRegenerate == InitRegenerate /\ [][NextRegenerate]_vars

\* ---------------------------------------------------------------------
\* The program started on a directory whose tail segment holds frames
\* ---------------------------------------------------------------------
TailContents == { GoodSetFrame, GoodSetFrame \o GoodDelFrame }

InitAppend ==
    /\ \E contents \in TailContents :
           InitStoreOn([n \in { wal_file_name(0) } |-> contents], 1)
    /\ IdleUnits

SpecAppend == InitAppend /\ [][Next]_vars

\* ---------------------------------------------------------------------
\* Recovery of a segment whose last flush was cut short: whole frames
\* followed by a proper prefix of one more frame
\* ---------------------------------------------------------------------
WholeOps == { new_set(i64(1), kA, v1), new_del(i64(2), kA) }

RECURSIVE WholeOpSeqs(_)
WholeOpSeqs(n) ==
    IF n = 0 THEN { << >> }
    ELSE LET shorter == WholeOpSeqs(n - 1)
         IN  shorter \cup { Append(s, op) : s \in shorter, op \in WholeOps }

RECURSIVE FramesOf(_)
FramesOf(opseq) ==
    IF opseq = << >> THEN << >>
    ELSE op_to_bytes(Head(opseq)) \o FramesOf(Tail(opseq))

ProperPrefixes(frame) == { SubSeq(frame, 1, n) : n \in 0..(Len(frame) - 1) }

\* The segments with their whole operations: [whole, contents].
TornSegments ==
    { [whole |-> s, contents |-> FramesOf(s) \o p] :
        s \in WholeOpSeqs(MaxFrames - 1),
        p \in UNION { ProperPrefixes(op_to_bytes(op)) : op \in WholeOps } }

InitTorn ==
    /\ \E seg \in TornSegments :
           InitStoreOn([n \in { wal_file_name(0) } |-> seg.contents], 1)
    /\ IdleUnits

NextTorn == KvStore_regenerate

SpecTorn == InitTorn /\ [][NextTorn]_vars

\* ---------------------------------------------------------------------
\* Properties
\* ---------------------------------------------------------------------
IsPrefix(a, b) == Len(a) <= Len(b) /\ SubSeq(b, 1, Len(a)) = a

RECURSIVE Mutations(_)
Mutations(os) ==
    IF os = << >> THEN << >>
    ELSE (IF Head(os).type = "GET" THEN << >> ELSE << Head(os) >>)
         \o Mutations(Tail(os))

\* The operations evaluated by the reader loop of this run.
AppliedInRun == SubSeq(applied, n_recovered + 1, Len(applied))

\* The operations decoded from a byte sequence of whole frames.
Decoded(bytes) == recover_from_bytes(bytes)

\* C1: after any sequence of operations and a restart, replaying the WAL
\* (KvStore::regenerate) rebuilds the map the reader held before the
\* restart.
C1_ReplayRebuildsMap ==
    (restarts > 0 /\ rpc = "run") => store = store_before

\* C2: when the writer loop has returned after the channel was closed, the
\* batch is empty and the frame of every SET/DEL it received is in the
\* segment file.
C2_FlushedAtWriterExit ==
    wpc = "done" =>
        /\ batch = << >>
        /\ Decoded(AllSegments(disk)).kind = "ok"
        /\ Decoded(AllSegments(disk)).ops = Mutations(recvd)

C4_NoGetFrame ==
    /\ \A i \in 1..Len(written) : written[i].type # "GET"
    /\ LET chunks == split_to_chunks(AllSegments(disk) \o batch)
       IN  \A i \in 1..Len(chunks) :
               And(chunks[i][1], OPERATION_BITMASK) # GET_OPERATION

\* C4 witness: the writer has received a GET and the WAL holds frames both
\* in a segment and in the batch.
C4_Witness ==
    /\ \E i \in 1..Len(recvd) : recvd[i].type = "GET"
    /\ batch # << >>
    /\ AllSegments(disk) # << >>

\* C5: at startup recovery applies the operations of every segment of the
\* WAL directory, in ascending filename order, so the rebuilt map holds the
\* mutations written before a rotation.
C5_AllSegmentsReplayed ==
    (restarts > 0 /\ rpc = "run") =>
        /\ Decoded(AllSegments(disk)).kind = "ok"
        /\ store = eval_all(InMemoryLayer_new, Decoded(AllSegments(disk)).ops, 1)

\* The value a history of operations leaves for key k: that of the latest
\* SET of k that no later DEL of k followed, or None.
RECURSIVE LatestValue(_, _)
LatestValue(history, k) ==
    IF history = << >> THEN None
    ELSE LET last == history[Len(history)]
         IN  IF last.key = k /\ last.type = "SET" THEN Some(last.value)
             ELSE IF last.key = k /\ last.type = "DEL" THEN None
             ELSE LatestValue(SubSeq(history, 1, Len(history) - 1), k)

KeysOf(history) == { history[i].key : i \in 1..Len(history) }

\* C6: for the operations evaluated on the in-memory map, SET k v returns k
\* and makes k map to v; GET k returns the value of the latest SET of k
\* that no later DEL of k followed, or None, and leaves the map unchanged;
\* DEL k returns the value k had, or None, and afterwards k is absent.
C6_EvalSemantics ==
    /\ Len(results) = Len(applied)
    /\ \A i \in 1..Len(applied) :
           LET before == SubSeq(applied, 1, i - 1)
           IN  results[i] = IF applied[i].type = "SET" THEN Some(applied[i].key)
                            ELSE LatestValue(before, applied[i].key)
    /\ \A e \in store : LatestValue(applied, e[1]) = Some(e[2])
    /\ \A k \in KeysOf(applied) :
           LatestValue(applied, k) # None =>
               << k, LatestValue(applied, k)[1] >> \in store

\* C6 witness: a key was set, read back, deleted with its value returned,
\* read again as None, and is absent from the map.
C6_Witness ==
    \E i, j, l \in 1..Len(applied) :
        /\ i < j /\ j < l /\ l < Len(applied)
        /\ applied[i].type = "SET"
        /\ applied[j].type = "GET" /\ applied[j].key = applied[i].key
        /\ results[j] = Some(applied[i].value)
        /\ applied[l].type = "DEL" /\ applied[l].key = applied[i].key
        /\ results[l] = Some(applied[i].value)
        /\ applied[Len(applied)].type = "GET"
        /\ applied[Len(applied)].key = applied[i].key
        /\ results[Len(applied)] = None
        /\ get(store, applied[i].key) = None

\* C7: the queue never holds more than its capacity; while it is full the
\* reader's send does not complete and the reader neither evaluates nor
\* replies until the writer receives an operation; no operation is dropped
\* or reordered (received operations followed by the queue are the
\* operations sent).
C7_Backpressure ==
    /\ [](Len(queue) <= ChannelCapacity /\ recvd \o queue = sent)
    /\ [][(rpc = "send" /\ Len(queue) = ChannelCapacity) =>
              /\ store' = store
              /\ last_result' = last_result
              /\ applied' = applied
              /\ results' = results
              /\ sent' = sent
              /\ ops' = ops]_vars

\* C7 witness: the reader is suspended on a send to a full queue.
C7_Witness ==
    /\ rpc = "send"
    /\ Len(queue) = ChannelCapacity
    /\ Len(ops) >= 1

\* C8: once every sender has been dropped the writer loop processes every
\* operation still in the queue and then terminates: it never exits with
\* operations unprocessed and never waits forever.
C8_DrainThenTerminate ==
    /\ [](wpc = "done" => (closed /\ queue = << >> /\ recvd = sent))
    /\ (closed ~> wpc = "done")

\* C8 witness: the channel was closed with operations still queued and the
\* writer loop has returned.
C8_Witness ==
    /\ wpc = "done"
    /\ pending_at_close > 0
    /\ recvd = sent

\* C9: when a request line yields a parse error the reader enqueues
\* nothing, leaves the in-memory map unchanged and goes on to read the next
\* line.
C9_ParseErrorNoEffect ==
    [][(lines_read' = lines_read + 1 /\ parse(cur_line').status = "err") =>
           /\ queue' = queue
           /\ sent' = sent
           /\ store' = store
           /\ applied' = applied
           /\ ops' = << >>
           /\ rpc' = "parse"]_vars

\* C9 witness: a line was rejected and the reader is handling a later line.
C9_Witness ==
    /\ parse_errors >= 1
    /\ rpc = "eval"
    /\ lines_read >= 2

\* The request grammar STATEMENT (AND STATEMENT)* read off the words of a
\* line, keys and values being words that are no keyword.
IsLiteralWord(w) == w \notin { W_SET, W_GET, W_DEL, W_AND, W_TO }

RECURSIVE Grammar(_)
Grammar(words) ==
    LET stmt ==
            IF /\ Len(words) >= 4
               /\ words[1] = W_SET /\ IsLiteralWord(words[2])
               /\ words[3] = W_TO /\ IsLiteralWord(words[4])
              THEN [ok |-> TRUE, op |-> new_set(i64(0), words[2], words[4]), len |-> 4]
            ELSE IF Len(words) >= 2 /\ words[1] = W_GET /\ IsLiteralWord(words[2])
              THEN [ok |-> TRUE, op |-> new_get(i64(0), words[2]), len |-> 2]
            ELSE IF Len(words) >= 2 /\ words[1] = W_DEL /\ IsLiteralWord(words[2])
              THEN [ok |-> TRUE, op |-> new_del(i64(0), words[2]), len |-> 2]
            ELSE [ok |-> FALSE]
    IN  IF ~ stmt.ok THEN [ok |-> FALSE]
        ELSE IF Len(words) = stmt.len THEN [ok |-> TRUE, ops |-> << stmt.op >>]
        ELSE IF words[stmt.len + 1] # W_AND THEN [ok |-> FALSE]
        ELSE LET rest == Grammar(SubSeq(words, stmt.len + 2, Len(words)))
             IN  IF rest.ok THEN [ok |-> TRUE, ops |-> << stmt.op >> \o rest.ops]
                 ELSE [ok |-> FALSE]

\* C10: for every request line of the form STATEMENT (AND STATEMENT)*
\* Parser::parse returns exactly one operation per statement, in statement
\* order, each with the statement's type, key and (for SET) value.
C10_OneOperationPerStatement ==
    Grammar(p_words).ok =>
        /\ p_parse.status # "err"
        /\ p_parse.operations = Grammar(p_words).ops

\* C10 witness: parse has returned the operations of a line of two
\* statements, the first a SET.
C10_Witness ==
    /\ Grammar(p_words).ok
    /\ p_parse.status = "ok"
    /\ Len(p_parse.operations) = 2
    /\ p_parse.operations[1].type = "SET"

\* The transition table of the request grammar: the tokens listed for each
\* parser state.
Listed(state, t) ==
    CASE state = "Start" -> t \in {"SET", "GET", "DEL"}
      [] state \in {"Set", "Get", "Del"} -> t = "LITERAL"
      [] state = "Key" -> t \in {"TO", "AND", "EOF"}
      [] state = "To" -> t = "LITERAL"
      [] state = "Value" -> t \in {"AND", "EOF"}

\* What Parser::parse hands to its caller: the operations on Ok, none on Err.
Returned(p) == IF p.status = "ok" THEN p.operations ELSE << >>

\* C11: for every parser state and every token the transition table does
\* not list for that state, Parser::parse returns an error and returns no
\* operation of the line, the operations of earlier well-formed statements
\* of the line included.
C11_UnlistedTransitionIsError ==
    [][ p_words' # p_words =>
          LET word == p_words'[Len(p_words')]
          IN  ~ Listed(p_parse.sm.state, eval_word(word).t) =>
                /\ p_parse'.status = "err"
                /\ Returned(p_parse') = << >> ]_vars

\* C11 witness: a line whose first statement is well formed and whose next
\* token is not listed has been rejected.
C11_Witness ==
    /\ p_parse.status = "err"
    /\ Len(p_parse.operations) >= 1
    /\ Len(p_words) >= 3
    /\ ~ Listed(p_parse.sm.state, eval_word(p_words[Len(p_words)]).t)

\* C12: for every operation (SET, GET or DEL, any key, any value, any i64
\* timestamp, negative ones included) decoding the frame of op_to_bytes
\* without its magics succeeds and returns an operation equal to it.
C12_RoundTrip ==
    c_decoded # None => c_decoded[1] = [kind |-> "ok", op |-> c_op[1]]

\* C12 witness: a SET with a negative timestamp (a varint of ten bytes) and
\* the longest key has been encoded and decoded.
C12_Witness ==
    /\ c_decoded # None
    /\ c_op[1].type = "SET"
    /\ c_op[1].timestamp = i64(-1)
    /\ Len(c_op[1].key) = MaxKeyLen
    /\ c_decoded[1].kind = "ok"

\* C13: for every buffer made by concatenating k frames (k >= 0), whatever
\* bytes the payloads hold, split_to_chunks returns exactly k chunks, the
\* i-th being the bytes between the magics of the i-th frame.
C13_SplitReturnsPayloads ==
    s_chunks # None => s_chunks[1] = s_payloads

\* The segment created last.
TailSegment == wal_dir_files[Len(wal_dir_files)]

\* C14: while the on-disk size of the tail segment is below the limit the
\* writer loop creates no segment; once it has reached the limit, the
\* size_rotate of the next mutating operation makes exactly one new segment
\* appear and leaves the files and contents of the earlier segments as they
\* were; later operations create no segment until the new tail reaches the
\* limit.
C14_RotateAtLimitOnly ==
    [][ (wpc = "rotate" /\ wpc' = "recv") =>
          IF Len(disk[TailSegment]) < FileSizeLimit
            THEN DOMAIN disk' = DOMAIN disk
            ELSE /\ DOMAIN disk \subseteq DOMAIN disk'
                 /\ Cardinality(DOMAIN disk') = Cardinality(DOMAIN disk) + 1
                 /\ \A n \in DOMAIN disk : disk'[n] = disk[n] ]_vars

\* The decimal forms of the integers below the largest cutoff.
Decimals == [t \in 0..1000 |-> to_string(t)]

\* The file name has a first '_' and what follows it is the decimal form of
\* an integer below cutoff.
HasTimestampBelow(name, cutoff) ==
    \E i \in 1..Len(name) :
        /\ name[i] = 95
        /\ \A j \in 1..(i - 1) : name[j] # 95
        /\ \E t \in 0..(cutoff - 1) : SubSeq(name, i + 1, Len(name)) = Decimals[t]

\* C15: timed_cleanup(cutoff) attempts to delete exactly the segments whose
\* file name suffix after the first '_' parses to an integer below cutoff,
\* removes from the segment set exactly those whose deletion succeeded and
\* returns their number; every other segment stays on disk and in the set.
\* With wal_100, wal_200, wal_300 and cutoff 250: wal_100 and wal_200 are
\* deleted, 2 is returned, wal_300 remains.
C15_TimedCleanupExact ==
    [][ (f_calls' # f_calls /\ f_call'[1].op = "timed_cleanup") =>
          LET c == f_call'[1]
              Segments == Range(wal_dir_files)
              Older == { n \in Segments : HasTimestampBelow(n, c.to_point_in_time) }
              Deleted == { n \in Older : n \in DOMAIN disk /\ n \notin c.failing }
              Kept == Segments \ Deleted
              Fresh == IF Kept = {} THEN { wal_file_name(clock) } ELSE {}
          IN  /\ Range(c.files_to_delete) = Older
              /\ c.result = Cardinality(Deleted)
              /\ Range(wal_dir_files') = Kept \cup Fresh
              /\ DOMAIN disk' = (DOMAIN disk \ Deleted) \cup Fresh
              /\ \A n \in DOMAIN disk \ Deleted : disk'[n] = disk[n]
              /\ (Segments = { wal_100, wal_200, wal_300 }
                    /\ c.to_point_in_time = 250 /\ c.failing = {}) =>
                    /\ c.result = 2
                    /\ Range(wal_dir_files') = { wal_300 }
                    /\ wal_300 \in DOMAIN disk'
                    /\ { wal_100, wal_200 } \cap DOMAIN disk' = {} ]_vars

\* C15 witness: the cleanup with cutoff 250 has deleted wal_100, failed to
\* delete wal_200, and has kept wal_300 and a file of another name.
C15_Witness ==
    /\ f_call # None
    /\ f_call[1].op = "timed_cleanup"
    /\ f_call[1].to_point_in_time = 250
    /\ f_call[1].failing = { wal_200 }
    /\ f_call[1].result = 1
    /\ Range(wal_dir_files) = { wal_200, wal_300, wal_x9 }
    /\ DOMAIN disk = { wal_200, wal_300, wal_x9 }

\* C16: the segment set of the file manager is never empty: after the
\* construction and after every successful rotate, size_rotate or
\* timed_cleanup call at least one segment exists; the construction on an
\* empty directory leaves exactly one segment, and a timed_cleanup that
\* deletes every existing segment leaves exactly one, newly created, segment.
C16_SegmentSetNeverEmpty ==
    /\ [](/\ Range(wal_dir_files) # {}
          /\ Range(wal_dir_files) \cap DOMAIN disk # {}
          /\ (f_call[1].op = "new" /\ f_call[1].found = {}) =>
                /\ Len(wal_dir_files) = 1
                /\ DOMAIN disk = { wal_dir_files[1] })
    /\ [][ (f_calls' # f_calls /\ f_call'[1].op = "timed_cleanup"
              /\ f_call'[1].result = Cardinality(Range(wal_dir_files))) =>
                /\ Len(wal_dir_files') = 1
                /\ wal_dir_files'[1] = wal_file_name(clock)
                /\ wal_dir_files'[1] \in DOMAIN disk'
                /\ disk'[wal_dir_files'[1]] = << >> ]_vars

\* C16 witness: a timed_cleanup has deleted all three segments of the
\* directory and one fresh segment, named after the current second, exists.
C16_Witness ==
    /\ f_call[1].op = "timed_cleanup"
    /\ f_call[1].result = 3
    /\ wal_dir_files = << wal_file_name(clock) >>
    /\ disk[wal_file_name(clock)] = << >>
    /\ wal_100 \notin DOMAIN disk

\* The keys in the cache.
Cached(l) == { l.cache[i][1] : i \in 1..Len(l.cache) }

\* Position of the last use of key in the history of uses (0: never used).
LastUse(uses, key) ==
    IF \E i \in 1..Len(uses) : uses[i] = key
      THEN CHOOSE i \in 1..Len(uses) :
               uses[i] = key /\ \A j \in (i + 1)..Len(uses) : uses[j] # key
      ELSE 0

\* C17: for an LRU cache of capacity c and any sequence of put, get and del
\* calls, putting a key that is not cached while c keys are cached evicts
\* exactly the least recently used key (a put and a successful get count as
\* a use) and every other cached key stays cached.
C17_EvictsLeastRecentlyUsed ==
    [][ (l_call'.n # l_call.n /\ l_call'.op = "put"
           /\ l_call'.key \notin Cached(l_layer[1])
           /\ Cardinality(Cached(l_layer[1])) = l_capacity) =>
          LET lru == CHOOSE k \in Cached(l_layer[1]) :
                         \A other \in Cached(l_layer[1]) :
                             LastUse(l_uses, k) <= LastUse(l_uses, other)
          IN  Cached(l_layer'[1]) =
                  (Cached(l_layer[1]) \ { lru }) \cup { l_call'.key } ]_vars


\* C18: every iteration of Block::construct sends its pair to the overflow
\* list exactly when the 34-byte line pointer plus the 4 + len(value) value
\* entry exceed the free space upper - lower of the header at that point,
\* and otherwise writes the pair into the page and goes on with the loop.
C18_OverflowExactlyWhenNoSpace ==
    [][b_index' = b_index + 1 =>
        LET b == b_block[1]
            pair == b_init_data[b_index + 1]
            need == 34 + 4 + Len(pair[2])
        IN  IF need > b.header.upper - b.header.lower
              THEN b_block'[1] = [b EXCEPT !.not_fit_records = Append(@, pair)]
              ELSE /\ b_block'[1].status = "running"
                   /\ b_block'[1].not_fit_records = b.not_fit_records
                   /\ Len(b_block'[1].data) = Len(b.data) + 2]_vars

\* C19: at every step of Block::construct no cursor computation has failed
\* and the header keeps 12 <= lower <= upper <= 8191.
C19_CursorsStayOrdered ==
    b_block # None =>
        /\ b_block[1].status # "panic"
        /\ HEADER_SIZE <= b_block[1].header.lower
        /\ b_block[1].header.lower <= b_block[1].header.upper
        /\ b_block[1].header.upper <= PAGE_SIZE - 1

\* C20: when a chunk of the recovered bytes fails to decode,
\* KvStore::regenerate returns an error (main's unwrap then ends the
\* process) and the in-memory map is exactly as before the call.
C20_FailedDecodeAppliesNothing ==
    [][rpc = "regenerate" /\ rpc' # "regenerate" =>
        LET rec == recover_from_bytes(WALio_recover(IO, disk).buffer)
        IN  rec.kind # "ok" =>
              /\ rec.kind = "err"
              /\ rpc' = "dead"
              /\ store' = store
              /\ applied' = applied]_vars

\* C21: op_from_bytes returns an error value for every malformed input: it
\* neither panics nor returns an operation.
C21_MalformedIsError ==
    (c_op = None /\ c_decoded # None) => c_decoded[1].kind = "err"

\* C22: for every sequence of write and flush calls without I/O errors the
\* file contents followed by the pending batch are the concatenation of all
\* data passed to write, in call order; right after a flush the batch is
\* empty and the file alone holds that concatenation.
C22_FileThenBatchIsAllData ==
    /\ disk[file_handle.file] \o batch = w_data
    /\ w_call.op = "flush" => batch = << >> /\ disk[file_handle.file] = w_data

\* A flush call made while data was pending, after an earlier flush inside
\* write.
C22_Witness ==
    /\ w_call.op = "flush"
    /\ w_calls >= 3
    /\ Len(w_data) > 4
    /\ disk[file_handle.file] = w_data

\* C26: write flushes the pending batch before appending exactly when
\* len(batch) + len(data) exceeds the capacity given at construction, after
\* any number of writes.
C26_FlushThresholdIsFixed ==
    [][w_call'.op = "write" /\ w_calls' = w_calls + 1 =>
        LET data == w_call'.data
        IN  IF Len(batch) + Len(data) > batch_capacity
              THEN /\ batch' = data
                   /\ disk'[file_handle.file] = disk[file_handle.file] \o batch
              ELSE /\ batch' = batch \o data
                   /\ disk' = disk]_vars

\* C23: an I/O error of WALio::write or of size_rotate does not end the
\* writer loop: after a failed write the loop goes on to size_rotate, after
\* a failed rotation it goes on to receive with the file handle it had, and
\* the loop ends only when the channel is closed and every operation sent
\* was received.
C23_IoErrorKeepsWriterRunning ==
    /\ [][io_errors' > io_errors =>
            \/ wpc = "write" /\ wpc' = "rotate"
            \/ /\ wpc = "rotate" /\ wpc' = "recv"
               /\ file_handle' = file_handle]_vars
    /\ [](wpc = "done" => closed /\ queue = << >> /\ recvd = sent)

\* C23 witness: the one error so far is a failed rotation (the tail was
\* removed, the handle is the writable one of the start), and the writer has
\* received a later operation and is about to write it.
C23_Witness ==
    /\ io_errors = 1
    /\ latest_file \notin DOMAIN disk
    /\ file_handle.write
    /\ wpc = "write"

\* C24: the tail of the file manager is the newest segment: after
\* construction on a non-empty directory it is the greatest name, and after
\* every successful rotate (also the one inside size_rotate) the tail, and
\* the file size_rotate opens, is the segment rotate just created.
C24_TailIsNewestSegment ==
    /\ [](f_call # None /\ f_call[1].op = "new" /\ f_call[1].found # {} =>
            /\ latest_file \in f_call[1].found
            /\ \A n \in f_call[1].found : path_le(n, latest_file))
    /\ [][(/\ f_calls' = f_calls + 1
           /\ f_call'[1].op \in {"rotate", "size_rotate"}
           /\ wal_dir_files' # wal_dir_files) =>
              /\ latest_file' = wal_file_name(clock)
              /\ f_call'[1].op = "size_rotate" =>
                     f_call'[1].file[1].file = wal_file_name(clock)]_vars

\* C25: when size_rotate hands the writer loop a new file handle, the
\* pending batch is flushed to the previous segment before the new handle
\* is installed: at the switch the batch is empty and its frames are in the
\* segment of the previous handle.
C25_FlushBeforeHandleSwitch ==
    [][(wpc = "rotate" /\ file_handle' # file_handle) =>
          /\ batch' = << >>
          /\ disk'[file_handle.file] = disk[file_handle.file] \o batch]_vars

\* C27: recovery of a segment made of k whole frames and a proper prefix of
\* one more frame succeeds and yields exactly the k operations of the whole
\* frames, in order.
C27_TornTailIsTolerated ==
    \A seg \in TornSegments :
        (disk[wal_file_name(0)] = seg.contents /\ rpc # "regenerate") =>
            /\ rpc = "run"
            /\ applied = seg.whole

\* The number of places of the buffer where the four bytes of magic start.
CountMagic(bytes, magic) ==
    Cardinality({ i \in 0..(Len(bytes) - 4) : Slice(bytes, i, i + 4) = magic })

\* C28: split_to_chunks clears the pending start when it emits a chunk, so
\* an END_MAGIC with no pending START_MAGIC emits nothing and the number of
\* chunks never exceeds the number of START_MAGIC occurrences in the buffer.
C28_ChunksBoundedByStarts ==
    (s_chunks # None /\ s_chunks[1] # "panic") =>
        Len(s_chunks[1]) <= CountMagic(s_buffer, START_MAGIC_BYTES)

\* C29: for every buffer of length 0, 1, 2 or 3 split_to_chunks returns an
\* empty list of chunks and does not crash.
C29_ShortBufferGivesNoChunks ==
    (s_chunks # None /\ Len(s_buffer) <= 3) =>
        /\ s_chunks[1] # "panic"
        /\ s_chunks[1] = << >>

\* The kind of the i-th word of the line, END past the last word.
KindAt(words, i) == IF i <= Len(words) THEN eval_word(words[i]).t ELSE "END"

EndsStatement(kind) == kind \in { "AND", "END" }

\* A statement starts at word i and lacks a required part: a keyword with
\* no key, or a SET with a key and no `TO value`.
Incomplete(words, i) ==
    /\ i = 1 \/ KindAt(words, i - 1) = "AND"
    /\ \/ /\ KindAt(words, i) \in { "SET", "GET", "DEL" }
          /\ EndsStatement(KindAt(words, i + 1))
       \/ /\ KindAt(words, i) = "SET"
          /\ KindAt(words, i + 1) = "LITERAL"
          /\ \/ EndsStatement(KindAt(words, i + 2))
             \/ /\ KindAt(words, i + 2) = "TO"
                /\ EndsStatement(KindAt(words, i + 3))

\* C30: a line that holds a SET without `TO value` or a keyword without a
\* key, at its end or before an AND, is never parsed successfully.
C30_IncompleteStatementIsError ==
    p_parse.status = "ok" => \A i \in 1..Len(p_words) : ~ Incomplete(p_words, i)

\* C31: a write of the writer loop appends: the file it changes is the file
\* of the handle, whose new contents are the old contents followed by the
\* flushed batch, so no byte already in the segment is overwritten and the
\* segment stays a concatenation of frames.
C31_WritesAppendToTail ==
    [][(wpc = "write" /\ disk' # disk) =>
          /\ DOMAIN disk' = DOMAIN disk
          /\ \A n \in DOMAIN disk :
               disk'[n] = IF n = file_handle.file THEN disk[n] \o batch ELSE disk[n]]_vars

\* The store recovered the frames of the tail, two more frames were
\* written and the first of them was flushed behind the recovered bytes.
C31_Witness ==
    /\ n_recovered >= 1
    /\ Len(written) >= 2
    /\ io_errors = 0
    /\ file_handle.file = wal_file_name(0)
    /\ \E contents \in TailContents :
         /\ IsPrefix(contents, disk[wal_file_name(0)])
         /\ Len(disk[wal_file_name(0)]) > Len(GoodSetFrame \o GoodDelFrame)

\* C32: the encoding of a number has no trailing zero byte, 0 is encoded
\* as the single byte 0 (127 as 7F, 128 as 80 01, 16384 as 80 80 01), and
\* decoding the encoding, whatever bytes follow
\* it, returns the number and the length of the encoding.
C32_VarintRoundTrip ==
    /\ v_bytes # None =>
         /\ Len(v_bytes[1]) >= 1
         /\ Len(v_bytes[1]) > 1 => v_bytes[1][Len(v_bytes[1])] # 0
         /\ v_number = usize(0) => v_bytes[1] = << 0 >>
         /\ v_number = usize(127) => v_bytes[1] = << 127 >>
         /\ v_number = usize(128) => v_bytes[1] = << 128, 1 >>
         /\ v_number = usize(16384) => v_bytes[1] = << 128, 128, 1 >>
    /\ v_decoded # None =>
         /\ v_decoded[1].kind = "ok"
         /\ v_decoded[1].value = v_number
         /\ v_decoded[1].consumed = Len(v_bytes[1])

\* The largest usize was encoded in ten bytes and decoded with bytes
\* whose high bit is set following the encoding.
C32_Witness ==
    /\ v_number = U64(65535, 65535, 65535, 65535)
    /\ v_rest = << 255, 255 >>
    /\ v_decoded # None
    /\ Len(v_bytes[1]) = 10
    /\ v_decoded[1].consumed = 10

\* Sizes around the free space of header h, and around that of a new page.
SizesAround(h) ==
    { n \in { 0, 1, (h.upper - h.lower) - 1, h.upper - h.lower,
              (h.upper - h.lower) + 1, 8179, 8180, 60000 } : n >= 0 }

\* C33: on every header with lower <= upper that an iteration of
\* Block::construct tests, is_space_to_write(n) computes without underflow
\* and returns true exactly when upper - lower >= n.
C33_SpaceIsUpperMinusLower ==
    [][(b_index' = b_index + 1
            /\ b_block[1].header.lower <= b_block[1].header.upper) =>
          \A n \in SizesAround(b_block[1].header) :
              LET r == is_space_to_write(b_block[1].header, n, b_checks)
              IN  /\ ~ r.panic
                  /\ r.value =
                       (b_block[1].header.upper - b_block[1].header.lower >= n)]_vars

\* C34: after any sequence of rotate, size_rotate and timed_cleanup calls
\* the tail of the file manager is a member of its segment set and names a
\* file that exists on disk.
C34_TailIsLiveSegment ==
    /\ latest_file \in Range(wal_dir_files)
    /\ latest_file \in DOMAIN disk

\* C35: rotate never reuses the name of an existing segment: the segment
\* set never holds the same path twice, and a call never empties a segment
\* that was on disk before it and is still there after it.
C35_RotateNeverReusesName ==
    /\ [](\A i, j \in 1..Len(wal_dir_files) :
              wal_dir_files[i] = wal_dir_files[j] => i = j)
    /\ [][f_calls' = f_calls + 1 =>
            \A n \in DOMAIN disk \cap DOMAIN disk' : disk'[n] = disk[n]]_vars

\* The number of statement keywords (SET, GET, DEL) among the words.
RECURSIVE CountKeywords(_)
CountKeywords(words) ==
    IF words = << >> THEN 0
    ELSE (IF eval_word(Head(words)).t \in { "SET", "GET", "DEL" } THEN 1 ELSE 0)
         + CountKeywords(Tail(words))

\* C36: Parser::parse never returns more operations than the line has
\* statement keywords.
C36_OneOperationPerKeyword ==
    Len(Returned(p_parse)) <= CountKeywords(p_words)

\* C37: a get(k) that directly follows put(k, v), with k still cached,
\* returns v, also when k was cached with another value before the put.
C37_GetReturnsLastPut ==
    [][(/\ l_call.op = "put"
        /\ l_call'.n = l_call.n + 1
        /\ l_call'.op = "get"
        /\ l_call'.key = l_call.key
        /\ l_call.key \in Cached(l_layer[1])) =>
            l_call'.result = Some(l_call.value)]_vars

\* C38: under fair scheduling the reader and the writer never deadlock:
\* every operation enqueued is eventually received by the writer, and a
\* reader suspended on a full queue eventually completes its send and
\* replies, unless the store is dropped while it waits.
C38_NoDeadlock ==
    /\ (Len(recvd) < Len(sent)) ~> (recvd = sent)
    /\ (rpc = "send" /\ Len(queue) = ChannelCapacity)
           ~> (rpc = "eval" \/ rpc = "stopped")
    /\ (rpc = "eval") ~> (rpc # "eval")

\* The reader completed a send into the room the writer had made in the
\* queue, which is full again.
C38_Witness ==
    /\ rpc = "eval"
    /\ ~ closed
    /\ Len(queue) = ChannelCapacity
    /\ Len(recvd) >= 1
    /\ wpc \in { "recv", "write", "rotate" }

====
